---- MODULE Spec2Model ----
(***************************************************************************)
(* URL shortener: the redirect path (cache-aside lookup, access policy,    *)
(* click enqueue), the click ingestion worker, the link mutations          *)
(* (update, soft delete, increment, hourly count sync) and link creation.  *)
(*                                                                         *)
(* Every await of the source is a step boundary: a database statement, a   *)
(* cache get/set/del and a queue add are each one atomic step, and the     *)
(* synchronous code between two awaits belongs to the step that follows    *)
(* the first await.  The cache keeps the payload it was given.             *)
(***************************************************************************)
EXTENDS Integers, Sequences, FiniteSets, TLC

VARIABLES
    urls,      \* the urls table: a sequence of rows, a row's id is its index
    cache,     \* the cache: key -> <<>> or <<payload>>
    clickRows, \* the clicks table: url id -> number of Click rows
    queue,     \* the clicks queue: url id -> number of waiting ClickEvents
    jobs,      \* the clicks queue, job by job: the jobs added with their state
    now,       \* the clock read by new Date()
    clicks,    \* the clicks table row by row: the columns of the rows saved
    isDevelopment, \* GeoIpService.isDevelopment (NODE_ENV is not production)
    admitted,  \* history: per IP, the rate-limit checks answered allowed since
               \* one last found the IP without a counter
    users,     \* the users table: the one user's refreshToken column, and the
               \* history of the refresh tokens issued to that user
    calls,     \* history: per IP and route, the rate-limit checks that read the
               \* counter since one last found the IP without a counter
    procs,     \* the concurrent requests / jobs / tasks in flight
    lastResp,  \* the response of the operation that returned last
    retVer,    \* history: per url id, the newest write whose mutation returned
    ops        \* history: the number of operations started so far

vars == <<urls, cache, clickRows, queue, jobs, now, clicks, isDevelopment, admitted, users, calls, procs, lastResp, retVer, ops>>

----------------------------------------------------------------------------
(* Bounds of the model *)

NProc == 2
MaxOps == 3
MaxRedirects == 2
MaxNow == 2
MaxQuota == 2

Procs == 1..NProc
Codes == {"a", "b"}
Passwords == {"", "p1", "p2"}     \* "" is the falsy (absent) password
Dests == {"d1", "d2"}
Times == 0..MaxNow                \* expiresAt: 0 is null

MaxUrls == 2
MaxCreates == 2
MaxJobs == 2
UrlIds == 1..MaxUrls

----------------------------------------------------------------------------
(* CacheService: the keys.  The lookup key of a short code is written as the
   code itself; the analytics keys carry their prefix. *)

analyticsOverviewKey(shortCode) == "analytics:overview:" \o shortCode

analyticsLocationsKey(shortCode) == "analytics:locations:" \o shortCode

analyticsDevicesKey(shortCode) == "analytics:devices:" \o shortCode

analyticsReferrersKey(shortCode) == "analytics:referrers:" \o shortCode

analyticsTimelineKey(shortCode, interval, days) ==
    "analytics:timeline:" \o shortCode \o ":" \o interval \o ":" \o ToString(days)

\* the IPs of the rate-limited clients
RateIPs == {"1.1.1.1", "2.2.2.2"}

rateLimitKeyShared(ip) == "ratelimit:" \o "1.1.1.1"

\* const key = `ratelimit:${ip}` (the counters live in the same cache store)
rateLimitKey(ip) == "ratelimit:" \o ip

Intervals == {"hour", "day"}
DayWindows == {7, 30}

CacheKeys ==
    Codes
      \cup { analyticsOverviewKey(c) : c \in Codes }
      \cup { analyticsLocationsKey(c) : c \in Codes }
      \cup { analyticsDevicesKey(c) : c \in Codes }
      \cup { analyticsReferrersKey(c) : c \in Codes }
      \cup { analyticsTimelineKey(c, i, d) : c \in Codes, i \in Intervals,
                                               d \in DayWindows }
      \cup { rateLimitKey(ip) : ip \in RateIPs }

\* the routes behind RateLimitGuard: with no @RateLimit options ("default"),
\* URL creation, the redirect
Routes == {"default", "create", "redirect"}

NoCalls == [ip \in RateIPs |-> [r \in Routes |-> 0]]

NoAdmitted == [ip \in RateIPs |-> 0]

\* no user is registered
NoUsers == [refreshToken |-> <<>>, issued |-> 0, revoked |-> 0, used |-> {}]

----------------------------------------------------------------------------
(* bcrypt *)

NoHash == <<>>

Hash(password) == <<"bcrypt", password>>

Compare(password, hash) == hash = Hash(password)

\* bcrypt reads the first 72 bytes of its input.  A refresh token is a JWT:
\* 36 characters of header, a dot, and the payload, which starts with
\* {"sub":"<user id>: the first 72 bytes of every refresh token of a user are
\* the same text.  Token 0 is a text that is not a JWT of this system.
First72(token) == IF token = 0 THEN "invalid-token" ELSE "header.sub:u1"

HashToken(token) == <<"bcrypt", First72(token)>>

CompareToken(token, hash) == hash = HashToken(token)

----------------------------------------------------------------------------
(* The urls table *)

NewUrl(originalUrl, shortCode, isAlias, password, expiresAt, maxClicks) ==
    [ originalUrl |-> originalUrl,
      shortCode   |-> shortCode,
      customAlias |-> isAlias,
      title       |-> "t0",
      password    |-> IF password # "" THEN Hash(password) ELSE NoHash,
      expiresAt   |-> expiresAt,
      maxClicks   |-> maxClicks,
      isActive    |-> TRUE,
      clickCount  |-> 0,
      userId      |-> "owner",   \* the links of the model belong to one user
      deletedAt   |-> FALSE,
      ver         |-> 0 ]      \* history: the number of writes to the row

Ids(table) == 1..Len(table)

\* repository.findOne({ where: { shortCode } }): soft-deleted rows are not found
FindByShortCode(table, shortCode) ==
    LET hit == { i \in Ids(table) :
                   table[i].shortCode = shortCode /\ ~table[i].deletedAt }
    IN  IF hit = {} THEN <<>> ELSE << CHOOSE i \in hit : \A j \in hit : i <= j >>

\* repository.findOne({ where: { id } }): soft-deleted rows are not found
FindById(table, id) ==
    IF id \in Ids(table) /\ ~table[id].deletedAt THEN <<id>> ELSE <<>>

NoUniqueIndex(table, shortCode) == FALSE

\* the unique index on urls.shortCode covers every row, tombstones included
UniqueViolation(table, shortCode) ==
    \E i \in Ids(table) : table[i].shortCode = shortCode

----------------------------------------------------------------------------
(* Access policy: the checks of getOriginalUrl on the payload it resolved *)

AuthorizeQuotaFirst(url, password, t) ==
    IF url.deletedAt THEN "Gone"
    ELSE IF ~url.isActive THEN "Deactivated"
    ELSE IF url.maxClicks # 0 /\ url.clickCount >= url.maxClicks
         THEN "QuotaExceeded"
    ELSE IF url.expiresAt # 0 /\ t > url.expiresAt THEN "Expired"
    ELSE IF url.password # NoHash /\ password = "" THEN "PasswordRequired"
    ELSE IF url.password # NoHash /\ ~Compare(password, url.password)
         THEN "PasswordMismatch"
    ELSE "OK"

Authorize(url, password, t) ==
    IF url.deletedAt THEN "Gone"
    ELSE IF ~url.isActive THEN "Deactivated"
    ELSE IF url.expiresAt # 0 /\ t > url.expiresAt THEN "Expired"
    ELSE IF url.maxClicks # 0 /\ url.clickCount >= url.maxClicks
         THEN "QuotaExceeded"
    ELSE IF url.password # NoHash /\ password = "" THEN "PasswordRequired"
    ELSE IF url.password # NoHash /\ ~Compare(password, url.password)
         THEN "PasswordMismatch"
    ELSE "OK"

\* NotFoundException / BadRequestException / ConflictException carry their status;
\* any other error has none and the handlers answer 500
StatusNotFoundAs400(reason) ==
    CASE reason = "OK" -> 302
      [] reason \in {"NotFound", "Gone", "Deactivated", "Expired", "QuotaExceeded",
                     "PasswordRequired", "PasswordMismatch", "Validation"} -> 400
      [] reason = "Conflict" -> 409
      [] reason = "Unauthorized" -> 401
      [] reason = "TooManyRequests" -> 429
      [] OTHER -> 500

StatusOf(reason) ==
    CASE reason = "OK" -> 302
      [] reason \in {"NotFound", "Gone"} -> 404
      [] reason \in {"Deactivated", "Expired", "QuotaExceeded",
                     "PasswordRequired", "PasswordMismatch", "Validation"} -> 400
      [] reason = "Conflict" -> 409
      [] reason = "Unauthorized" -> 401
      [] reason = "TooManyRequests" -> 429
      [] OTHER -> 500

----------------------------------------------------------------------------
(* Processes: one record per request, job or task in flight *)

NoDto == [title |-> <<>>, isActive |-> <<>>, expiresAt |-> <<>>, maxClicks |-> <<>>]

IdleProc ==
    [ op    |-> "idle",  \* the operation in flight
      pc    |-> "idle",  \* the await it stands before
      stage |-> 0,       \* redirect handler: index into RedirectSteps
      code  |-> "",      \* the shortCode argument
      id    |-> 0,       \* the url id held (url.id, urlId)
      pw    |-> "",      \* the password argument
      ent   |-> <<>>,    \* the entity / payload held: <<>> or <<row>>
      dto   |-> NoDto,   \* updateUrl's dto
      items |-> <<>>,    \* a list being iterated
      k     |-> 0,       \* loop index / attempt number
      n     |-> 0,       \* a count read from the store / attempt number
      pend  |-> <<>>,    \* the rows inserted by the open transaction
      enq   |-> FALSE,   \* history: this request enqueued a ClickEvent
      full  |-> FALSE,   \* history: the stored quota was used up at the start
      sv    |-> 0,       \* history: retVer of the code (analytics: the clicks
                         \* processed) at the start
      wv    |-> 0,       \* history: the row version this mutation wrote
      rd    |-> 0,       \* history: the reads of the urls table by this request
      val   |-> <<>>,    \* the analytics value held: <<>> or <<value>>
      key   |-> "",      \* the cache key handed to wrap / of the counter
      route |-> "",      \* the route RateLimitGuard stands before
      user  |-> "",      \* the authenticated user of an analytics request
      tok   |-> 0,       \* the refresh token presented
      hash  |-> <<>>,    \* user.refreshToken of the user entity held
      late  |-> FALSE,   \* history: the token presented was issued before a
                         \* logout that had returned when this request started
      flt   |-> {} ]     \* history: the cache operations of this request that failed

NoResp ==
    [ op |-> "none", code |-> "", pw |-> "", reason |-> "", status |-> 0,
      location |-> "", enq |-> FALSE, full |-> FALSE, n |-> 0, rd |-> 0,
      val |-> <<>>, flt |-> {}, sv |-> 0 ]

Max(a, b) == IF a >= b THEN a ELSE b

\* processes are interchangeable: a new operation takes the first free one
Free(p) ==
    /\ procs[p].op = "idle"
    /\ \A q \in Procs : q < p => procs[q].op # "idle"

\* history: the stored link of that code has a quota and has used it up
QuotaFull(table, shortCode) ==
    \E i \in Ids(table) :
        /\ table[i].shortCode = shortCode /\ ~table[i].deletedAt
        /\ table[i].maxClicks > 0 /\ table[i].clickCount >= table[i].maxClicks

\* what the caller of the operation held in pr gets when it ends with `reason`
Response(pr, reason) ==
    [ op       |-> pr.op,
      code     |-> pr.code,
      pw       |-> pr.pw,
      reason   |-> reason,
      status   |-> StatusOf(reason),
      location |-> IF reason = "OK" /\ pr.ent # <<>>
                   THEN pr.ent[1].originalUrl ELSE "",
      enq      |-> pr.enq,
      full     |-> pr.full,
      n        |-> IF reason = "OK" THEN Len(pr.pend) ELSE 0,
      rd       |-> pr.rd,
      val      |-> pr.val,
      flt      |-> pr.flt,
      sv       |-> IF pr.op = "overview" THEN pr.sv ELSE 0 ]

\* the operation of process p, its record now pr, returns (or throws)
ReturnAs(p, pr, reason) ==
    /\ procs' = [procs EXCEPT ![p] = IdleProc]
    /\ lastResp' = Response(pr, reason)

\* the operation of process p returns (or throws) with `reason`
Return(p, reason) ==
    /\ procs' = [procs EXCEPT ![p] = IdleProc]
    /\ lastResp' = Response(procs[p], reason)

----------------------------------------------------------------------------
(* UrlController.redirectToOriginal: the statements of its try block, in order *)

RedirectStepsEnqueueFirst == <<"byCode", "enqueue", "resolve">>

RedirectSteps == <<"byCode", "resolve", "enqueue">>

EntryPc(step) == IF step = "resolve" THEN "get" ELSE step

\* process p completed a step of its operation without throwing: pr is its record
Advance(p, pr) ==
    IF pr.op = "redirect" /\ pr.stage < Len(RedirectSteps)
    THEN /\ procs' = [procs EXCEPT ![p] =
                [pr EXCEPT !.stage = pr.stage + 1,
                           !.pc = EntryPc(RedirectSteps[pr.stage + 1])]]
         /\ UNCHANGED lastResp
    ELSE /\ procs' = [procs EXCEPT ![p] = IdleProc]
         /\ lastResp' = Response(pr, "OK")

StartRedirect(p, shortCode, password) ==
    /\ Free(p)
    /\ ops < MaxRedirects
    /\ ops' = ops + 1
    /\ procs' = [procs EXCEPT ![p] =
           [IdleProc EXCEPT !.op = "redirect", !.stage = 1,
                            !.pc = EntryPc(RedirectSteps[1]),
                            !.code = shortCode, !.pw = password,
                            !.full = QuotaFull(urls, shortCode),
                            !.sv = retVer[shortCode]]]
    /\ UNCHANGED <<urls, cache, clickRows, queue, jobs, now, clicks, isDevelopment, admitted, users, calls, lastResp, retVer>>

\* const url = await this.urlService.getUrlByShortCode(shortCode)
ByCode(p) ==
    LET pr == procs[p]
        f  == FindByShortCode(urls, pr.code)
    IN  /\ pr.pc = "byCode"
        /\ IF f = <<>>
           THEN Return(p, "NotFound")
           ELSE Advance(p, [pr EXCEPT !.id = f[1], !.rd = @ + 1])
        /\ UNCHANGED <<urls, cache, clickRows, queue, jobs, now, clicks, isDevelopment, admitted, users, calls, retVer, ops>>

\* getOriginalUrl called on its own (the service's callers, the tests)
StartResolve(p, shortCode, password) ==
    /\ Free(p)
    /\ ops < MaxOps
    /\ ops' = ops + 1
    /\ procs' = [procs EXCEPT ![p] =
           [IdleProc EXCEPT !.op = "resolve", !.pc = "get",
                            !.code = shortCode, !.pw = password,
                            !.full = QuotaFull(urls, shortCode),
                            !.sv = retVer[shortCode]]]
    /\ UNCHANGED <<urls, cache, clickRows, queue, jobs, now, clicks, isDevelopment, admitted, users, calls, lastResp, retVer>>

\* const cached = await this.cacheService.get<Url>(cacheKey)
CacheGet(p) ==
    LET pr == procs[p] IN
    /\ pr.pc = "get"
    /\ procs' = [procs EXCEPT ![p] =
           IF cache[pr.code] # <<>>
           THEN [pr EXCEPT !.ent = cache[pr.code], !.pc = "check"]
           ELSE [pr EXCEPT !.pc = "find"]]
    /\ UNCHANGED <<urls, cache, clickRows, queue, jobs, now, clicks, isDevelopment, admitted, users, calls, lastResp, retVer, ops>>

\* const foundUrl = await this.urlRepository.findOne({ where: { shortCode } })
Find(p) ==
    LET pr == procs[p]
        f  == FindByShortCode(urls, pr.code)
    IN  /\ pr.pc = "find"
        /\ IF f = <<>>
           THEN Return(p, "NotFound")
           ELSE /\ procs' = [procs EXCEPT ![p] =
                       [pr EXCEPT !.ent = <<urls[f[1]]>>, !.pc = "set",
                                  !.rd = @ + 1]]
                /\ UNCHANGED lastResp
        /\ UNCHANGED <<urls, cache, clickRows, queue, jobs, now, clicks, isDevelopment, admitted, users, calls, retVer, ops>>

\* await this.cacheService.set(cacheKey, url, TTL)
CacheSet(p) ==
    LET pr == procs[p] IN
    /\ pr.pc = "set"
    /\ cache' = [cache EXCEPT ![pr.code] = pr.ent]
    /\ procs' = [procs EXCEPT ![p] = [pr EXCEPT !.pc = "check"]]
    /\ UNCHANGED <<urls, clickRows, queue, jobs, now, clicks, isDevelopment, admitted, users, calls, lastResp, retVer, ops>>

\* the checks on url, then return url.originalUrl
Check(p) ==
    LET pr == procs[p]
        r  == Authorize(pr.ent[1], pr.pw, now)
    IN  /\ pr.pc = "check"
        /\ IF r = "OK" THEN Advance(p, pr) ELSE Return(p, r)
        /\ UNCHANGED <<urls, cache, clickRows, queue, jobs, now, clicks, isDevelopment, admitted, users, calls, retVer, ops>>

\* await this.analyticsService.enqueueClickEvent({ urlId: url.id, ... })
Enqueue(p) ==
    LET pr == procs[p] IN
    /\ pr.pc = "enqueue"
    /\ queue' = [queue EXCEPT ![pr.id] = @ + 1]
    /\ Advance(p, [pr EXCEPT !.enq = TRUE])
    /\ UNCHANGED <<urls, cache, clickRows, jobs, now, clicks, isDevelopment, admitted, users, calls, retVer, ops>>

----------------------------------------------------------------------------
(* The clicks worker: ClickProcessor.process -> processClickEvent *)

\* urlRepository.increment({ id }, 'clickCount', 1): one UPDATE, clickCount + 1
IncrementByRecount(table, id) ==
    [table EXCEPT ![id].clickCount = clickRows[id], ![id].ver = @ + 1]

Increment(table, id) ==
    [table EXCEPT ![id].clickCount = @ + 1, ![id].ver = @ + 1]

\* the worker takes a waiting job
StartWorker(p, id) ==
    /\ Free(p)
    /\ queue[id] > 0
    /\ queue' = [queue EXCEPT ![id] = @ - 1]
    /\ procs' = [procs EXCEPT ![p] =
           [IdleProc EXCEPT !.op = "click", !.pc = "saveClick", !.id = id]]
    /\ UNCHANGED <<urls, cache, clickRows, jobs, now, clicks, isDevelopment, admitted, users, calls, lastResp, retVer, ops>>

\* await this.clickRepository.save(click)
SaveClick(p) ==
    LET pr == procs[p] IN
    /\ pr.pc = "saveClick"
    /\ clickRows' = [clickRows EXCEPT ![pr.id] = @ + 1]
    /\ clicks' = IF pr.ent = <<>> THEN clicks ELSE Append(clicks, pr.ent[1])
    /\ procs' = [procs EXCEPT ![p] = [pr EXCEPT !.pc = "clickIncrement"]]
    /\ UNCHANGED <<urls, cache, queue, jobs, now, isDevelopment, admitted, users, calls, lastResp, retVer, ops>>

\* await this.urlRepository.increment({ id: urlId }, 'clickCount', 1)
ClickIncrement(p) ==
    LET pr == procs[p] IN
    /\ pr.pc = "clickIncrement"
    /\ urls' = Increment(urls, pr.id)
    /\ procs' = [procs EXCEPT ![p] = [pr EXCEPT !.pc = "clickInvalidate"]]
    /\ UNCHANGED <<cache, clickRows, queue, jobs, now, clicks, isDevelopment, admitted, users, calls, lastResp, retVer, ops>>

\* invalidateAnalyticsCache(shortCode): del of the overview, locations, devices
\* and referrers keys (the four deletes are taken as one step)
InvalidateAnalyticsCache(c, shortCode) ==
    [k \in DOMAIN c |->
        IF k \in { analyticsOverviewKey(shortCode), analyticsLocationsKey(shortCode),
                   analyticsDevicesKey(shortCode), analyticsReferrersKey(shortCode) }
        THEN <<>> ELSE c[k]]

\* the job of process p (if it came from the job list) completes: with
\* removeOnComplete it leaves the queue; the record is kept as history
Complete(pr) ==
    IF pr.k = 0 THEN jobs
    ELSE [jobs EXCEPT ![pr.k].state = "completed", ![pr.k].attemptsMade = @ + 1]

\* findOne({ where: { id: urlId } }), then invalidateAnalyticsCache(url.shortCode):
\* the analytics keys of the code are deleted, its lookup key is not; then
\* processClickEvent and the job's handler return
ClickInvalidate(p) ==
    LET pr == procs[p] IN
    /\ pr.pc = "clickInvalidate"
    /\ cache' = IF FindById(urls, pr.id) # <<>>
                THEN InvalidateAnalyticsCache(cache, urls[pr.id].shortCode)
                ELSE cache
    /\ jobs' = Complete(pr)
    /\ procs' = [procs EXCEPT ![p] = IdleProc]
    /\ UNCHANGED <<urls, clickRows, queue, now, clicks, isDevelopment, admitted, users, calls, lastResp, retVer, ops>>

----------------------------------------------------------------------------
(* The clicks queue job by job: enqueueClickEvent's options { attempts: 3,
   backoff, removeOnComplete: true, removeOnFail: false } and the worker *)

attemptsFour == 3 + 1

attempts == 3

\* @Processor('clicks') sets no concurrency: the worker runs one job at a time
concurrency == 1

\* await this.clickQueue.add('record-click', clickEventDto, { ... }); mayFail is
\* the number of attempts of this job that the environment lets fail
QueueAdd(id, mayFail) ==
    /\ Len(jobs) < MaxJobs
    /\ jobs' = Append(jobs, [urlId |-> id, state |-> "waiting",
                              attemptsMade |-> 0, mayFail |-> mayFail])
    /\ UNCHANGED <<urls, cache, clickRows, queue, now, clicks, isDevelopment, admitted, users, calls, calls, procs, lastResp, retVer, ops>>

EligibleInOrder(j) ==
    /\ jobs[j].state = "waiting"
    /\ \A i \in 1..(j - 1) : jobs[i].state = "completed"

\* the worker takes any waiting job: delayed and failed jobs are not in its way
Eligible(j) == jobs[j].state = "waiting"

\* ClickProcessor.process(job) -> handleRecordClick(job) -> processClickEvent
TakeJob(p, j) ==
    /\ Free(p)
    /\ Cardinality({ q \in Procs : procs[q].op = "click" }) < concurrency
    /\ j \in 1..Len(jobs)
    /\ Eligible(j)
    /\ jobs' = [jobs EXCEPT ![j].state = "active"]
    /\ procs' = [procs EXCEPT ![p] =
           [IdleProc EXCEPT !.op = "click", !.pc = "saveClick",
                            !.id = jobs[j].urlId, !.k = j]]
    /\ UNCHANGED <<urls, cache, clickRows, queue, now, clicks, isDevelopment, admitted, users, calls, lastResp, retVer, ops>>

\* where the job goes when its handler throws: back to the queue after the
\* backoff delay, or to the failed set once its attempts are used up
AfterFailure(job) ==
    [job EXCEPT !.attemptsMade = @ + 1,
                !.state = IF job.attemptsMade + 1 < attempts THEN "delayed"
                          ELSE "failed"]

\* an await of processClickEvent rejects: handleRecordClick logs and rethrows
AttemptFails(p) ==
    LET pr == procs[p] IN
    /\ pr.op = "click" /\ pr.k > 0
    /\ jobs[pr.k].attemptsMade < jobs[pr.k].mayFail
    /\ jobs' = [jobs EXCEPT ![pr.k] = AfterFailure(jobs[pr.k])]
    /\ procs' = [procs EXCEPT ![p] = IdleProc]
    /\ UNCHANGED <<urls, cache, clickRows, queue, now, clicks, isDevelopment, admitted, users, calls, lastResp, retVer, ops>>

\* the backoff delay of a retried job has elapsed
BackoffElapsed(j) ==
    /\ j \in 1..Len(jobs)
    /\ jobs[j].state = "delayed"
    /\ jobs' = [jobs EXCEPT ![j].state = "waiting"]
    /\ UNCHANGED <<urls, cache, clickRows, queue, now, clicks, isDevelopment, admitted, users, calls, calls, procs, lastResp, retVer, ops>>

----------------------------------------------------------------------------
(* UrlService.updateUrl, deleteUrl, incrementClickCount *)

Deactivate == [NoDto EXCEPT !.isActive = <<FALSE>>]
SetQuota == [NoDto EXCEPT !.maxClicks = <<1>>]
Retitle == [NoDto EXCEPT !.title = <<"t1">>]
SetExpiry(t) == [NoDto EXCEPT !.expiresAt = <<t>>]

\* the assignments of updateUrl to the entity it loaded
ApplyDto(url, dto) ==
    [url EXCEPT
        !.title     = IF dto.title # <<>> THEN dto.title[1] ELSE @,
        !.isActive  = IF dto.isActive # <<>> THEN dto.isActive[1] ELSE @,
        !.expiresAt = IF dto.expiresAt # <<>> THEN dto.expiresAt[1] ELSE @,
        !.maxClicks = IF dto.maxClicks # <<>> THEN dto.maxClicks[1] ELSE @]

\* newExpiration < new Date()
PastExpiry(expiresAt, t) == expiresAt # 0 /\ expiresAt < t

\* repository.save(entity) of a loaded entity: the row takes the entity's columns
Save(table, id, entity) ==
    [table EXCEPT ![id] = [entity EXCEPT !.ver = table[id].ver + 1]]

\* repository.softRemove(entity): UPDATE urls SET deletedAt = now WHERE id
SoftRemove(table, id) ==
    [table EXCEPT ![id].deletedAt = TRUE, ![id].ver = @ + 1]

\* await this.cacheService.del(urlLookupKey(shortCode))
CacheDel(c, shortCode) == [c EXCEPT ![shortCode] = <<>>]

\* a mutation returns after its invalidation: its write is now a returned one
Returned(p) ==
    retVer' = [retVer EXCEPT ![procs[p].ent[1].shortCode] = Max(@, procs[p].wv)]

StartUpdate(p, id, dto) ==
    /\ Free(p)
    /\ ops < MaxOps
    /\ ops' = ops + 1
    /\ procs' = [procs EXCEPT ![p] =
           [IdleProc EXCEPT !.op = "update", !.pc = "updRead",
                            !.id = id, !.dto = dto]]
    /\ UNCHANGED <<urls, cache, clickRows, queue, jobs, now, clicks, isDevelopment, admitted, users, calls, lastResp, retVer>>

\* const url = await this.getUrlById(id); then the assignments and the expiry check
UpdRead(p) ==
    LET pr == procs[p]
        f  == FindById(urls, pr.id)
    IN  /\ pr.pc = "updRead"
        /\ IF f = <<>>
           THEN Return(p, "NotFound")
           ELSE IF pr.dto.expiresAt # <<>> /\ PastExpiry(pr.dto.expiresAt[1], now)
           THEN Return(p, "Validation")
           ELSE /\ procs' = [procs EXCEPT ![p] =
                       [pr EXCEPT !.ent = <<ApplyDto(urls[pr.id], pr.dto)>>,
                                  !.pc = "updSave"]]
                /\ UNCHANGED lastResp
        /\ UNCHANGED <<urls, cache, clickRows, queue, jobs, now, clicks, isDevelopment, admitted, users, calls, retVer, ops>>

\* const updatedUrl = await this.urlRepository.save(url)
UpdSave(p) ==
    LET pr == procs[p] IN
    /\ pr.pc = "updSave"
    /\ urls' = Save(urls, pr.id, pr.ent[1])
    /\ procs' = [procs EXCEPT ![p] =
           [pr EXCEPT !.ent = <<urls'[pr.id]>>, !.wv = urls'[pr.id].ver,
                      !.pc = "updDel"]]
    /\ UNCHANGED <<cache, clickRows, queue, jobs, now, clicks, isDevelopment, admitted, users, calls, lastResp, retVer, ops>>

\* await this.cacheService.del(cacheKey); return updatedUrl
UpdDel(p) ==
    LET pr == procs[p] IN
    /\ pr.pc = "updDel"
    /\ cache' = CacheDel(cache, pr.ent[1].shortCode)
    /\ Returned(p)
    /\ Return(p, "OK")
    /\ UNCHANGED <<urls, clickRows, queue, jobs, now, clicks, isDevelopment, admitted, users, calls, ops>>

StartDelete(p, id) ==
    /\ Free(p)
    /\ ops < MaxOps
    /\ ops' = ops + 1
    /\ procs' = [procs EXCEPT ![p] =
           [IdleProc EXCEPT !.op = "delete", !.pc = "delRead", !.id = id]]
    /\ UNCHANGED <<urls, cache, clickRows, queue, jobs, now, clicks, isDevelopment, admitted, users, calls, lastResp, retVer>>

\* const url = await this.getUrlById(id)
DelRead(p) ==
    LET pr == procs[p]
        f  == FindById(urls, pr.id)
    IN  /\ pr.pc = "delRead"
        /\ IF f = <<>>
           THEN Return(p, "NotFound")
           ELSE /\ procs' = [procs EXCEPT ![p] =
                       [pr EXCEPT !.ent = <<urls[pr.id]>>, !.pc = "delRemove"]]
                /\ UNCHANGED lastResp
        /\ UNCHANGED <<urls, cache, clickRows, queue, jobs, now, clicks, isDevelopment, admitted, users, calls, retVer, ops>>

\* await this.urlRepository.softRemove(url)
DelRemove(p) ==
    LET pr == procs[p] IN
    /\ pr.pc = "delRemove"
    /\ urls' = SoftRemove(urls, pr.id)
    /\ procs' = [procs EXCEPT ![p] =
           [pr EXCEPT !.wv = urls'[pr.id].ver, !.pc = "delDel"]]
    /\ UNCHANGED <<cache, clickRows, queue, jobs, now, clicks, isDevelopment, admitted, users, calls, lastResp, retVer, ops>>

\* await this.cacheService.del(cacheKey)
DelDel(p) ==
    LET pr == procs[p] IN
    /\ pr.pc = "delDel"
    /\ cache' = CacheDel(cache, pr.ent[1].shortCode)
    /\ Returned(p)
    /\ Return(p, "OK")
    /\ UNCHANGED <<urls, clickRows, queue, jobs, now, clicks, isDevelopment, admitted, users, calls, ops>>

StartIncrement(p, id) ==
    /\ Free(p)
    /\ ops < MaxOps
    /\ ops' = ops + 1
    /\ procs' = [procs EXCEPT ![p] =
           [IdleProc EXCEPT !.op = "increment", !.pc = "incIncrement", !.id = id]]
    /\ UNCHANGED <<urls, cache, clickRows, queue, jobs, now, clicks, isDevelopment, admitted, users, calls, lastResp, retVer>>

\* await this.urlRepository.increment({ id: urlId }, 'clickCount', 1)
IncIncrement(p) ==
    LET pr == procs[p] IN
    /\ pr.pc = "incIncrement"
    /\ urls' = Increment(urls, pr.id)
    /\ procs' = [procs EXCEPT ![p] =
           [pr EXCEPT !.wv = urls'[pr.id].ver, !.pc = "incFind"]]
    /\ UNCHANGED <<cache, clickRows, queue, jobs, now, clicks, isDevelopment, admitted, users, calls, lastResp, retVer, ops>>

\* const url = await this.urlRepository.findOne({ where: { id: urlId } })
IncFind(p) ==
    LET pr == procs[p]
        f  == FindById(urls, pr.id)
    IN  /\ pr.pc = "incFind"
        /\ IF f = <<>>
           THEN Return(p, "OK")
           ELSE /\ procs' = [procs EXCEPT ![p] =
                       [pr EXCEPT !.ent = <<urls[pr.id]>>, !.pc = "incDel"]]
                /\ UNCHANGED lastResp
        /\ UNCHANGED <<urls, cache, clickRows, queue, jobs, now, clicks, isDevelopment, admitted, users, calls, retVer, ops>>

\* if (url) await this.cacheService.del(cacheKey)
IncDel(p) ==
    LET pr == procs[p] IN
    /\ pr.pc = "incDel"
    /\ cache' = CacheDel(cache, pr.ent[1].shortCode)
    /\ Returned(p)
    /\ Return(p, "OK")
    /\ UNCHANGED <<urls, clickRows, queue, jobs, now, clicks, isDevelopment, admitted, users, calls, ops>>

----------------------------------------------------------------------------
(* UrlService.createShortUrl, generateUniqueShortCode, bulkCreateShortUrls *)

\* new URL(url): <<>> when the parser throws, else the protocol and the hostname
\* of the parsed URL; the hostname of an IPv6 literal keeps its brackets
ParseUrl(url) ==
    CASE url = "not a url"             -> <<>>
      [] url = "ftp://example.com/f"   -> <<[protocol |-> "ftp:", hostname |-> "example.com"]>>
      [] url = "http://localhost:3000" -> <<[protocol |-> "http:", hostname |-> "localhost"]>>
      [] url = "http://127.0.0.1/"     -> <<[protocol |-> "http:", hostname |-> "127.0.0.1"]>>
      [] url = "http://[::1]/"         -> <<[protocol |-> "http:", hostname |-> "[::1]"]>>
      [] OTHER                         -> <<[protocol |-> "https:", hostname |-> "example.com"]>>

blockedHosts == {"localhost", "127.0.0.1", "0.0.0.0", "::1"}

\* TRUE when validateUrl returns, FALSE when it throws BadRequestException
validateUrl(url) ==
    LET parsed == ParseUrl(url) IN
    /\ parsed # <<>>
    /\ parsed[1].hostname \notin blockedHosts
    /\ parsed[1].protocol \in {"http:", "https:"}

maxRetriesSix == 5 + 1

maxRetries == 5

CreateDto(customAlias, expiresAt) ==
    [ originalUrl |-> "d2", customAlias |-> customAlias, password |-> "",
      expiresAt |-> expiresAt, maxClicks |-> 0 ]

\* this.urlRepository.create({ ... }) with the short code chosen
NewEntity(dto, shortCode) ==
    NewUrl(dto.originalUrl, shortCode, dto.customAlias # "", dto.password,
           dto.expiresAt, dto.maxClicks)

\* an INSERT of that short code by process p waits while another transaction
\* holds an uncommitted row of the same code
HoldsCode(q, shortCode) ==
    \E k \in 1..Len(procs[q].pend) : procs[q].pend[k].shortCode = shortCode

InsertWaits(p, shortCode) ==
    \E q \in Procs \ {p} : HoldsCode(q, shortCode)

StartCreate(p, dto) ==
    /\ Free(p)
    /\ ops < MaxCreates
    /\ ops' = ops + 1
    /\ LET pr == [IdleProc EXCEPT !.op = "create", !.dto = dto, !.k = 1,
                                  !.code = dto.customAlias,
                                  !.pc = IF dto.customAlias # "" THEN "crtFindAlias"
                                         ELSE "crtGenerate"]
       IN  IF validateUrl(dto.originalUrl)
           THEN /\ procs' = [procs EXCEPT ![p] = pr]
                /\ UNCHANGED lastResp
           ELSE /\ lastResp' = Response(pr, "Validation")
                /\ UNCHANGED procs
    /\ UNCHANGED <<urls, cache, clickRows, queue, jobs, now, clicks, isDevelopment, admitted, users, calls, retVer>>

\* the short code is chosen: the expiry check, then the entity is built
CrtChosen(p, pr, shortCode) ==
    IF PastExpiry(pr.dto.expiresAt, now)
    THEN Return(p, "Validation")
    ELSE /\ procs' = [procs EXCEPT ![p] =
                [pr EXCEPT !.ent = <<NewEntity(pr.dto, shortCode)>>,
                           !.pc = "crtSave"]]
         /\ UNCHANGED lastResp

\* const existing = await this.urlRepository.findOne({ shortCode: customAlias })
CrtFindAlias(p) ==
    LET pr == procs[p] IN
    /\ pr.pc = "crtFindAlias"
    /\ IF FindByShortCode(urls, pr.dto.customAlias) # <<>>
       THEN Return(p, "Conflict")
       ELSE CrtChosen(p, pr, pr.dto.customAlias)
    /\ UNCHANGED <<urls, cache, clickRows, queue, jobs, now, clicks, isDevelopment, admitted, users, calls, retVer, ops>>

\* one attempt of generateUniqueShortCode: nanoid() draws shortCode, findOne
CrtGenerate(p, shortCode) ==
    LET pr == procs[p] IN
    /\ pr.pc = "crtGenerate"
    /\ IF FindByShortCode(urls, shortCode) = <<>>
       THEN CrtChosen(p, pr, shortCode)
       ELSE IF pr.k < maxRetries
       THEN /\ procs' = [procs EXCEPT ![p] = [pr EXCEPT !.k = pr.k + 1]]
            /\ UNCHANGED lastResp
       ELSE Return(p, "Error")
    /\ UNCHANGED <<urls, cache, clickRows, queue, jobs, now, clicks, isDevelopment, admitted, users, calls, retVer, ops>>

\* const savedUrl = await this.urlRepository.save(url)
CrtSave(p) ==
    LET pr == procs[p] IN
    /\ pr.pc = "crtSave"
    /\ ~InsertWaits(p, pr.ent[1].shortCode)
    /\ IF UniqueViolation(urls, pr.ent[1].shortCode)
       THEN /\ Return(p, "QueryFailed")
            /\ UNCHANGED urls
       ELSE /\ urls' = Append(urls, pr.ent[1])
            /\ Return(p, "OK")
    /\ UNCHANGED <<cache, clickRows, queue, jobs, now, clicks, isDevelopment, admitted, users, calls, retVer, ops>>

BlkEnterUnvalidated(pr, k) ==
    IF k > Len(pr.items)
    THEN [pr EXCEPT !.k = k, !.pc = "blkCommit"]
    ELSE [pr EXCEPT !.k = k, !.n = 1,
                    !.pc = IF pr.items[k].customAlias # "" THEN "blkFindAlias"
                           ELSE "blkGenerate"]

\* the for loop of bulkCreateShortUrls enters item k, or the transaction commits;
\* this.validateUrl(originalUrl) throws inside the transaction callback
BlkEnter(pr, k) ==
    IF k > Len(pr.items)
    THEN [pr EXCEPT !.k = k, !.pc = "blkCommit"]
    ELSE IF ~validateUrl(pr.items[k].originalUrl)
    THEN [pr EXCEPT !.k = k, !.pc = "blkRollback"]
    ELSE [pr EXCEPT !.k = k, !.n = 1,
                    !.pc = IF pr.items[k].customAlias # "" THEN "blkFindAlias"
                           ELSE "blkGenerate"]

StartBulk(p, batch) ==
    /\ Free(p)
    /\ ops < MaxCreates
    /\ ops' = ops + 1
    /\ procs' = [procs EXCEPT ![p] =
           BlkEnter([IdleProc EXCEPT !.op = "bulk", !.items = batch], 1)]
    /\ UNCHANGED <<urls, cache, clickRows, queue, jobs, now, clicks, isDevelopment, admitted, users, calls, lastResp, retVer>>

\* the short code of item k is chosen: a past expiry skips the item
BlkChosen(pr, shortCode) ==
    IF PastExpiry(pr.items[pr.k].expiresAt, now)
    THEN BlkEnter(pr, pr.k + 1)
    ELSE [pr EXCEPT !.ent = <<NewEntity(pr.items[pr.k], shortCode)>>,
                    !.pc = "blkSave"]

\* const existing = await manager.findOne(Url, { shortCode: customAlias }): the
\* transaction sees the committed rows and its own
BlkFindAlias(p) ==
    LET pr == procs[p] IN
    /\ pr.pc = "blkFindAlias"
    /\ procs' = [procs EXCEPT ![p] =
           IF FindByShortCode(urls \o pr.pend, pr.items[pr.k].customAlias) # <<>>
           THEN BlkEnter(pr, pr.k + 1)
           ELSE BlkChosen(pr, pr.items[pr.k].customAlias)]
    /\ UNCHANGED <<urls, cache, clickRows, queue, jobs, now, clicks, isDevelopment, admitted, users, calls, lastResp, retVer, ops>>

\* one attempt of generateUniqueShortCode, which reads through the repository,
\* outside the transaction
BlkGenerate(p, shortCode) ==
    LET pr == procs[p] IN
    /\ pr.pc = "blkGenerate"
    /\ IF FindByShortCode(urls, shortCode) = <<>>
       THEN /\ procs' = [procs EXCEPT ![p] = BlkChosen(pr, shortCode)]
            /\ UNCHANGED lastResp
       ELSE IF pr.n < maxRetries
       THEN /\ procs' = [procs EXCEPT ![p] = [pr EXCEPT !.n = pr.n + 1]]
            /\ UNCHANGED lastResp
       ELSE Return(p, "Error")
    /\ UNCHANGED <<urls, cache, clickRows, queue, jobs, now, clicks, isDevelopment, admitted, users, calls, retVer, ops>>

\* const savedUrl = await manager.save(url): an INSERT inside the transaction;
\* a violation of the unique index aborts the transaction
BlkSave(p) ==
    LET pr == procs[p] IN
    /\ pr.pc = "blkSave"
    /\ ~InsertWaits(p, pr.ent[1].shortCode)
    /\ IF UniqueViolation(urls \o pr.pend, pr.ent[1].shortCode)
       THEN Return(p, "QueryFailed")
       ELSE /\ procs' = [procs EXCEPT ![p] =
                   BlkEnter([pr EXCEPT !.pend = Append(pr.pend, pr.ent[1])],
                            pr.k + 1)]
            /\ UNCHANGED lastResp
    /\ UNCHANGED <<urls, cache, clickRows, queue, jobs, now, clicks, isDevelopment, admitted, users, calls, retVer, ops>>

\* two transactions each wait for a row the other holds: the database aborts one
BlkDeadlock(p) ==
    LET pr == procs[p] IN
    /\ pr.pc = "blkSave"
    /\ \E q \in Procs \ {p} :
          /\ HoldsCode(q, pr.ent[1].shortCode)
          /\ procs[q].pc = "blkSave"
          /\ HoldsCode(p, procs[q].ent[1].shortCode)
    /\ Return(p, "QueryFailed")
    /\ UNCHANGED <<urls, cache, clickRows, queue, jobs, now, clicks, isDevelopment, admitted, users, calls, retVer, ops>>

\* the exception leaves the transaction callback: the transaction is rolled
\* back, its rows are dropped, and bulkCreateShortUrls rejects
BlkRollback(p) ==
    LET pr == procs[p] IN
    /\ pr.pc = "blkRollback"
    /\ Return(p, "Validation")
    /\ UNCHANGED <<urls, cache, clickRows, queue, jobs, now, clicks, isDevelopment, admitted, users, calls, retVer, ops>>

\* the transaction commits: its rows become visible together
BlkCommit(p) ==
    LET pr == procs[p] IN
    /\ pr.pc = "blkCommit"
    /\ urls' = urls \o pr.pend
    /\ Return(p, "OK")
    /\ UNCHANGED <<cache, clickRows, queue, jobs, now, clicks, isDevelopment, admitted, users, calls, retVer, ops>>

----------------------------------------------------------------------------
(* A failing cache backend or queue *)

Rethrown(operation) == FALSE

\* CacheService.get, set and del catch the error of the cache manager, log it
\* and return (get: null)
Swallowed(operation) == TRUE

\* the cache operation `operation` of process p fails; when the error is
\* swallowed the caller continues at pc `next`
CacheFails(p, operation, next) ==
    LET pr == [procs[p] EXCEPT !.flt = @ \cup {operation}] IN
    IF Swallowed(operation)
    THEN /\ procs' = [procs EXCEPT ![p] = [pr EXCEPT !.pc = next]]
         /\ UNCHANGED lastResp
    ELSE ReturnAs(p, pr, "CacheError")

\* cacheService.get fails in getOriginalUrl: cached is null, a miss
CacheGetFails(p) ==
    /\ procs[p].pc = "get"
    /\ CacheFails(p, "get", "find")
    /\ UNCHANGED <<urls, cache, clickRows, queue, jobs, now, clicks, isDevelopment, admitted, users, calls, retVer, ops>>

\* cacheService.set fails in getOriginalUrl: nothing is cached
CacheSetFails(p) ==
    /\ procs[p].pc = "set"
    /\ CacheFails(p, "set", "check")
    /\ UNCHANGED <<urls, cache, clickRows, queue, jobs, now, clicks, isDevelopment, admitted, users, calls, retVer, ops>>

\* cacheService.del fails in updateUrl or deleteUrl: the entry stays
MutationDelFails(p) ==
    LET pr == [procs[p] EXCEPT !.flt = @ \cup {"del"}] IN
    /\ procs[p].pc \in {"updDel", "delDel"}
    /\ Returned(p)
    /\ ReturnAs(p, pr, IF Swallowed("del") THEN "OK" ELSE "CacheError")
    /\ UNCHANGED <<urls, cache, clickRows, queue, jobs, now, clicks, isDevelopment, admitted, users, calls, ops>>

\* clickQueue.add rejects: the await in the handler's try block throws, an
\* error without a status
EnqueueFails(p) ==
    /\ procs[p].pc = "enqueue"
    /\ Return(p, "QueueError")
    /\ UNCHANGED <<urls, cache, clickRows, queue, jobs, now, clicks, isDevelopment, admitted, users, calls, retVer, ops>>

----------------------------------------------------------------------------
(* AnalyticsService.getAnalyticsOverview through CacheService.wrap *)

\* history: the clicks of the stored link of that code whose processClickEvent
\* has completed (a worker past its save has written its row already)
ClicksProcessed(shortCode) ==
    LET f == FindByShortCode(urls, shortCode) IN
    IF f = <<>> THEN 0
    ELSE clickRows[f[1]] -
           Cardinality({ q \in Procs : /\ procs[q].op = "click"
                                       /\ procs[q].id = f[1]
                                       /\ procs[q].pc \in {"clickIncrement",
                                                            "clickInvalidate"} })

\* the authenticated users: the id is the name, "admin" has role ADMIN
Users == {"owner", "other", "admin"}

\* url.userId !== user.id && user.role !== UserRole.ADMIN throws Unauthorized
MayRead(url, user) == url.userId = user \/ user = "admin"

StartOverviewAs(p, shortCode, user) ==
    /\ Free(p)
    /\ ops < MaxOps
    /\ ops' = ops + 1
    /\ procs' = [procs EXCEPT ![p] =
           [IdleProc EXCEPT !.op = "overview", !.pc = "wrapGet",
                            !.code = shortCode, !.k = 1, !.user = user,
                            !.sv = ClicksProcessed(shortCode),
                            !.key = analyticsOverviewKey(shortCode)]]
    /\ UNCHANGED <<urls, cache, clickRows, queue, jobs, now, clicks, isDevelopment, admitted, users, calls, lastResp, retVer>>

\* the overview requested by the link's owner
StartOverview(p, shortCode) == StartOverviewAs(p, shortCode, "owner")

\* the first await of the fallback function handed to wrap
FallbackEntry(pr) ==
    CASE pr.op = "overview" -> "ovFind"
      [] pr.op = "referrers" -> "refFallbackFind"
      [] OTHER -> "tlFallbackFind"

\* let value = await this.get(key): a hit is returned
WrapGet(p) ==
    LET pr == procs[p] IN
        /\ pr.pc = "wrapGet"
        /\ IF cache[pr.key] # <<>>
           THEN ReturnAs(p, [pr EXCEPT !.val = cache[pr.key]], "OK")
           ELSE /\ procs' = [procs EXCEPT ![p] =
                       [pr EXCEPT !.pc = FallbackEntry(pr)]]
                /\ UNCHANGED lastResp
        /\ UNCHANGED <<urls, cache, clickRows, queue, jobs, now, clicks, isDevelopment, admitted, users, calls, retVer, ops>>

WrapGetFails(p) ==
    /\ procs[p].pc = "wrapGet"
    /\ CacheFails(p, "get", FallbackEntry(procs[p]))
    /\ UNCHANGED <<urls, cache, clickRows, queue, jobs, now, clicks, isDevelopment, admitted, users, calls, retVer, ops>>

\* the fallback throws: wrap's catch runs the fallback once more and returns
\* what that run gives
FallbackThrows(p, pr, reason) ==
    IF pr.k = 1
    THEN /\ procs' = [procs EXCEPT ![p] =
                [pr EXCEPT !.k = 2, !.pc = FallbackEntry(pr)]]
         /\ UNCHANGED lastResp
    ELSE ReturnAs(p, pr, reason)

\* const url = await this.urlRepository.findOne({ where: { shortCode } })
OvFind(p) ==
    LET pr == procs[p]
        f  == FindByShortCode(urls, pr.code)
    IN  /\ pr.pc = "ovFind"
        /\ IF f = <<>>
           THEN FallbackThrows(p, pr, "NotFound")
           ELSE IF ~MayRead(urls[f[1]], pr.user)
           THEN FallbackThrows(p, [pr EXCEPT !.rd = @ + 1], "Unauthorized")
           ELSE /\ procs' = [procs EXCEPT ![p] =
                       [pr EXCEPT !.id = f[1], !.rd = @ + 1, !.pc = "ovCount"]]
                /\ UNCHANGED lastResp
        /\ UNCHANGED <<urls, cache, clickRows, queue, jobs, now, clicks, isDevelopment, admitted, users, calls, retVer, ops>>

\* const totalClicks = await this.clickRepository.count({ where: { urlId } })
OvCount(p) ==
    LET pr == procs[p] IN
    /\ pr.pc = "ovCount"
    /\ procs' = [procs EXCEPT ![p] =
           [pr EXCEPT !.n = clickRows[pr.id], !.pc = "ovAggregate"]]
    /\ UNCHANGED <<urls, cache, clickRows, queue, jobs, now, clicks, isDevelopment, admitted, users, calls, lastResp, retVer, ops>>

\* the further aggregate queries (taken as one read of the clicks table) and
\* the result: with no Click row getRawOne() gives undefined and
\* topCountry.click_country throws a TypeError
OvAggregate(p) ==
    LET pr == procs[p]
        v  == [pr EXCEPT !.val = <<[totalClicks |-> pr.n]>>]
    IN  /\ pr.pc = "ovAggregate"
        /\ IF clickRows[pr.id] = 0
           THEN FallbackThrows(p, pr, "TypeError")
           ELSE IF pr.k = 1
           THEN /\ procs' = [procs EXCEPT ![p] = [v EXCEPT !.pc = "wrapSet"]]
                /\ UNCHANGED lastResp
           ELSE ReturnAs(p, v, "OK")
        /\ UNCHANGED <<urls, cache, clickRows, queue, jobs, now, clicks, isDevelopment, admitted, users, calls, retVer, ops>>

\* await this.set(key, value, ttl); return value
WrapSet(p) ==
    LET pr == procs[p] IN
    /\ pr.pc = "wrapSet"
    /\ cache' = [cache EXCEPT ![pr.key] = pr.val]
    /\ Return(p, "OK")
    /\ UNCHANGED <<urls, clickRows, queue, jobs, now, clicks, isDevelopment, admitted, users, calls, retVer, ops>>

WrapSetFails(p) ==
    LET pr == [procs[p] EXCEPT !.flt = @ \cup {"set"}] IN
    /\ procs[p].pc = "wrapSet"
    /\ ReturnAs(p, pr, IF Swallowed("set") THEN "OK" ELSE "CacheError")
    /\ UNCHANGED <<urls, cache, clickRows, queue, jobs, now, clicks, isDevelopment, admitted, users, calls, retVer, ops>>

\* the TTL given to set runs out: the entry is gone
CacheExpires(k) ==
    /\ cache[k] # <<>>
    /\ cache' = [cache EXCEPT ![k] = <<>>]
    /\ UNCHANGED <<urls, clickRows, queue, jobs, now, clicks, isDevelopment, admitted, users, calls, calls, procs, lastResp, retVer, ops>>

----------------------------------------------------------------------------
(* AnalyticsService.getTimelineData through CacheService.wrap *)

StartTimeline(p, shortCode, interval, days) ==
    /\ Free(p)
    /\ ops < MaxOps
    /\ ops' = ops + 1
    /\ procs' = [procs EXCEPT ![p] =
           [IdleProc EXCEPT !.op = "timeline", !.pc = "tlFind",
                            !.code = shortCode, !.k = 1,
                            !.key = analyticsTimelineKey(shortCode, interval, days)]]
    /\ UNCHANGED <<urls, cache, clickRows, queue, jobs, now, clicks, isDevelopment, admitted, users, calls, lastResp, retVer>>

\* const url = await this.urlRepository.findOne({ where: { shortCode } })
TlFind(p) ==
    LET pr == procs[p] IN
    /\ pr.pc = "tlFind"
    /\ IF FindByShortCode(urls, pr.code) = <<>>
       THEN Return(p, "NotFound")
       ELSE /\ procs' = [procs EXCEPT ![p] =
                   [pr EXCEPT !.rd = @ + 1, !.pc = "wrapGet"]]
            /\ UNCHANGED lastResp
    /\ UNCHANGED <<urls, cache, clickRows, queue, jobs, now, clicks, isDevelopment, admitted, users, calls, retVer, ops>>

\* the fallback's findOne
TlFallbackFind(p) ==
    LET pr == procs[p]
        f  == FindByShortCode(urls, pr.code)
    IN  /\ pr.pc = "tlFallbackFind"
        /\ IF f = <<>>
           THEN FallbackThrows(p, pr, "NotFound")
           ELSE /\ procs' = [procs EXCEPT ![p] =
                       [pr EXCEPT !.id = f[1], !.rd = @ + 1, !.pc = "tlQuery"]]
                /\ UNCHANGED lastResp
        /\ UNCHANGED <<urls, cache, clickRows, queue, jobs, now, clicks, isDevelopment, admitted, users, calls, retVer, ops>>

\* the grouped count of the link's Click rows; totalClicks is its sum
TlQuery(p) ==
    LET pr == procs[p]
        v  == [pr EXCEPT !.val = <<[totalClicks |-> clickRows[pr.id]]>>]
    IN  /\ pr.pc = "tlQuery"
        /\ IF pr.k = 1
           THEN /\ procs' = [procs EXCEPT ![p] = [v EXCEPT !.pc = "wrapSet"]]
                /\ UNCHANGED lastResp
           ELSE ReturnAs(p, v, "OK")
        /\ UNCHANGED <<urls, cache, clickRows, queue, jobs, now, clicks, isDevelopment, admitted, users, calls, retVer, ops>>

----------------------------------------------------------------------------
(* GeoIpService.getLocation.  An address is its text; what the string
   operations and regular expressions of the source give for the texts of
   IPs is tabulated. *)

IPs == {"127.0.0.1", "10.0.0.7", "::ffff:10.0.0.7", "::1", "192.168.1.x",
        "8.8.8.8", "203.0.113.9"}

\* startsWith('::ffff:') -> substring(7); startsWith('::') with a '.' -> substring(2)
normalizeIP(ip) == IF ip = "::ffff:10.0.0.7" THEN "10.0.0.7" ELSE ip

\* privateRanges.some(range => range.test(ip)): /^127\./, /^10\./, /^192\.168\./
\* and /^::1$/ match these texts
isPrivateIP(ip) == ip \in {"127.0.0.1", "10.0.0.7", "::1", "192.168.1.x"}

\* the hash of getMockLocation: for a text with ':' parseInt(lastSegment, 16) || 0,
\* else parseInt(lastOctet, 10); <<>> is NaN
MockHash(ip) ==
    CASE ip = "127.0.0.1" -> <<1>>
      [] ip = "10.0.0.7" -> <<7>>
      [] ip = "::1" -> <<1>>
      [] ip = "192.168.1.x" -> <<>>
      [] OTHER -> <<0>>

Location(country, city) == [country |-> country, city |-> city]

\* null columns are written ""
getNullLocation == Location("", "")

mockLocations ==
    << Location("ID", "Jakarta"), Location("ID", "Surabaya"),
       Location("ID", "Bandung"), Location("SG", "Singapore"),
       Location("US", "New York") >>

\* <<location>>, or <<>> when it throws: with hash NaN the index is NaN,
\* mockLocations[NaN] is undefined and location.city throws a TypeError
getMockLocation(ip) ==
    IF MockHash(ip) = <<>> THEN <<>>
    ELSE <<mockLocations[(MockHash(ip)[1] % Len(mockLocations)) + 1]>>

\* geoip.lookup: the local table knows the first public address only
GeoLookup(ip) ==
    IF ip = "8.8.8.8" THEN <<Location("US", "")>> ELSE <<>>

\* <<location>>, or <<>> when it throws
getLocation(ipAddress, development) ==
    LET normalizedIP == normalizeIP(ipAddress) IN
    CASE development /\ isPrivateIP(normalizedIP) -> getMockLocation(normalizedIP)
      [] ~development /\ isPrivateIP(normalizedIP) -> <<getNullLocation>>
      [] OTHER -> IF GeoLookup(normalizedIP) = <<>>
                  THEN <<getNullLocation>>
                  ELSE GeoLookup(normalizedIP)

----------------------------------------------------------------------------
(* AnalyticsService.processClickEvent with the columns of its Click row *)

\* the Referer header values of a request: "" is no header
Referers == {"", "r1", "r2"}

ClickEventDto(urlId, ipAddress, referer) ==
    [urlId |-> urlId, ipAddress |-> ipAddress, referer |-> referer]

ClickEvents ==
    { ClickEventDto(1, ip, r) : ip \in IPs, r \in Referers }

\* clickRepository.create({ ..., referer: referer || null, country, city }):
\* null is written ""
NewClick(dto, geoData) ==
    [urlId |-> dto.urlId, ipAddress |-> dto.ipAddress, referer |-> dto.referer,
     country |-> geoData.country, city |-> geoData.city]

\* the worker takes the job of a ClickEvent
StartClick(p, dto) ==
    /\ Free(p)
    /\ ops < MaxOps
    /\ ops' = ops + 1
    /\ procs' = [procs EXCEPT ![p] =
           [IdleProc EXCEPT !.op = "click", !.pc = "geo", !.id = dto.urlId,
                            !.ent = <<dto>>]]
    /\ UNCHANGED <<urls, cache, clickRows, queue, jobs, now, clicks, isDevelopment, admitted, users, calls, lastResp, retVer>>

\* const geoData = await this.geoIpService.getLocation(ipAddress): a throw
\* ends processClickEvent (the attempt fails)
ClickGeo(p) ==
    LET pr      == procs[p]
        geoData == getLocation(pr.ent[1].ipAddress, isDevelopment)
    IN  /\ pr.pc = "geo"
        /\ IF geoData = <<>>
           THEN Return(p, "TypeError")
           ELSE /\ procs' = [procs EXCEPT ![p] =
                       [pr EXCEPT !.ent = <<NewClick(pr.ent[1], geoData[1])>>,
                                  !.pc = "saveClick"]]
                /\ UNCHANGED lastResp
        /\ UNCHANGED <<urls, cache, clickRows, queue, jobs, now, clicks, isDevelopment, admitted, users, calls, retVer, ops>>

----------------------------------------------------------------------------
(* AnalyticsService.getReferrerStats through CacheService.wrap *)

referrerLimit == 20

\* the rows of the link that pass .andWhere('click.referer IS NOT NULL')
WithReferer(rows, urlId) ==
    { i \in 1..Len(rows) : rows[i].urlId = urlId /\ rows[i].referer # "" }

Stat(referer, n) == [referer |-> referer, clicks |-> n]

\* groupBy('click.referer') with COUNT(*), and the map of the result:
\* referer: item.referer || 'Direct'
ReferrerGroups(rows, urlId) ==
    LET kept == WithReferer(rows, urlId) IN
    { Stat(IF r = "" THEN "Direct" ELSE r,
           Cardinality({ i \in kept : rows[i].referer = r }))
        : r \in { rows[i].referer : i \in kept } }

\* orderBy('clicks', 'DESC').limit(20): the results the database may give
\* (the order among equal counts is its choice)
ReferrerStats(rows, urlId) ==
    LET G == ReferrerGroups(rows, urlId)
        n == Cardinality(G)
        m == IF n < referrerLimit THEN n ELSE referrerLimit
        all == { q \in [1..n -> G] :
                   /\ \A i, j \in 1..n : i < j => /\ q[i] # q[j]
                                                   /\ q[i].clicks >= q[j].clicks }
    IN  { SubSeq(q, 1, m) : q \in all }

StartReferrers(p, shortCode) ==
    /\ Free(p)
    /\ ops < MaxOps
    /\ ops' = ops + 1
    /\ procs' = [procs EXCEPT ![p] =
           [IdleProc EXCEPT !.op = "referrers", !.pc = "refFind",
                            !.code = shortCode, !.k = 1,
                            !.key = analyticsReferrersKey(shortCode)]]
    /\ UNCHANGED <<urls, cache, clickRows, queue, jobs, now, clicks, isDevelopment, admitted, users, calls, lastResp, retVer>>

\* const url = await this.urlRepository.findOne({ where: { shortCode } })
RefFind(p) ==
    LET pr == procs[p] IN
    /\ pr.pc = "refFind"
    /\ IF FindByShortCode(urls, pr.code) = <<>>
       THEN Return(p, "NotFound")
       ELSE /\ procs' = [procs EXCEPT ![p] =
                   [pr EXCEPT !.rd = @ + 1, !.pc = "wrapGet"]]
            /\ UNCHANGED lastResp
    /\ UNCHANGED <<urls, cache, clickRows, queue, jobs, now, clicks, isDevelopment, admitted, users, calls, retVer, ops>>

\* the fallback's findOne
RefFallbackFind(p) ==
    LET pr == procs[p]
        f  == FindByShortCode(urls, pr.code)
    IN  /\ pr.pc = "refFallbackFind"
        /\ IF f = <<>>
           THEN FallbackThrows(p, pr, "NotFound")
           ELSE /\ procs' = [procs EXCEPT ![p] =
                       [pr EXCEPT !.id = f[1], !.rd = @ + 1, !.pc = "refQuery"]]
                /\ UNCHANGED lastResp
        /\ UNCHANGED <<urls, cache, clickRows, queue, jobs, now, clicks, isDevelopment, admitted, users, calls, retVer, ops>>

\* the grouped query and the map of its rows
RefQuery(p) ==
    LET pr == procs[p] IN
    /\ pr.pc = "refQuery"
    /\ \E res \in ReferrerStats(clicks, pr.id) :
         LET v == [pr EXCEPT !.val = <<res>>] IN
         IF pr.k = 1
         THEN /\ procs' = [procs EXCEPT ![p] = [v EXCEPT !.pc = "wrapSet"]]
              /\ UNCHANGED lastResp
         ELSE ReturnAs(p, v, "OK")
    /\ UNCHANGED <<urls, cache, clickRows, queue, jobs, now, clicks, isDevelopment, admitted, users, calls, retVer, ops>>

----------------------------------------------------------------------------
(* RateLimitGuard.canActivate and RateLimitService.checkRateLimit *)

maxRequests == 10

createMax == 5

redirectMax == 30

MaxCalls == 12

\* const limit = customLimit?.max || this.maxRequests, customLimit being the
\* options of the handler's @RateLimit
LimitOf(route) ==
    CASE route = "create" -> createMax
      [] route = "redirect" -> redirectMax
      [] OTHER -> maxRequests

AtLimitAbove(current, limit) == current > limit

\* if (current >= limit)
AtLimit(current, limit) == current >= limit

RateLimitResult(allowed, remaining, limit) ==
    [allowed |-> allowed, remaining |-> remaining, limit |-> limit]

\* a request of `ip` to `route` reaches the guard
StartCheck(p, ip, route) ==
    /\ Free(p)
    /\ calls[ip][route] < MaxCalls
    /\ procs' = [procs EXCEPT ![p] =
           [IdleProc EXCEPT !.op = "rateLimit", !.pc = "rlGet", !.code = ip,
                            !.route = route, !.key = rateLimitKey(ip),
                            !.n = LimitOf(route)]]
    /\ UNCHANGED <<urls, cache, clickRows, queue, jobs, now, clicks, isDevelopment, admitted, users, calls, lastResp, retVer, ops>>

\* const current = (await this.cacheManager.get(key)) || 0; at the limit the
\* result is { allowed: false, remaining: 0 } and the guard throws 429
RlGet(p) ==
    LET pr      == procs[p]
        current == IF cache[pr.key] = <<>> THEN 0 ELSE cache[pr.key][1]
    IN  /\ pr.pc = "rlGet"
        /\ calls' = [calls EXCEPT ![pr.code] =
                        IF cache[pr.key] = <<>>
                        THEN [r \in Routes |-> IF r = pr.route THEN 1 ELSE 0]
                        ELSE [@ EXCEPT ![pr.route] = @ + 1]]
        /\ IF AtLimit(current, pr.n)
           THEN ReturnAs(p, [pr EXCEPT !.val = <<RateLimitResult(FALSE, 0, pr.n)>>],
                         "TooManyRequests")
           ELSE /\ procs' = [procs EXCEPT ![p] =
                       [pr EXCEPT !.k = current, !.pc = "rlSet"]]
                /\ UNCHANGED lastResp
        /\ admitted' = IF cache[pr.key] = <<>>
                       THEN [admitted EXCEPT ![pr.code] = 0] ELSE admitted
        /\ UNCHANGED <<urls, cache, clickRows, queue, jobs, now, clicks, isDevelopment, users, retVer, ops>>

\* await this.cacheManager.set(key, newCount, ttl); the result is
\* { allowed: true, remaining: limit - newCount }
RlSet(p) ==
    LET pr       == procs[p]
        newCount == pr.k + 1
    IN  /\ pr.pc = "rlSet"
        /\ cache' = [cache EXCEPT ![pr.key] = <<newCount>>]
        /\ ReturnAs(p, [pr EXCEPT !.val =
                            <<RateLimitResult(TRUE, pr.n - newCount, pr.n)>>], "OK")
        /\ admitted' = [admitted EXCEPT ![pr.code] = @ + 1]
        /\ UNCHANGED <<urls, clickRows, queue, jobs, now, clicks, isDevelopment, users, calls, retVer, ops>>

\* resetRateLimit(ip): await this.cacheManager.del(key)
ResetRateLimit(ip) ==
    /\ cache[rateLimitKey(ip)] # <<>>
    /\ cache' = [cache EXCEPT ![rateLimitKey(ip)] = <<>>]
    /\ UNCHANGED <<urls, clickRows, queue, jobs, now, clicks, isDevelopment, admitted, users, calls, procs, lastResp, retVer, ops>>

\* the requests of one IP come one after another
SequentialCheck(p, ip, route) ==
    /\ \A q \in Procs : ~(procs[q].op = "rateLimit" /\ procs[q].code = ip)
    /\ StartCheck(p, ip, route)

----------------------------------------------------------------------------
(* SyncCountsTask.syncClickCounts *)

\* urlRepository.find({ where: { clickCount: 0 } }): the live rows counting 0
ZeroCountUrls(table) ==
    LET Zero(i) == ~table[i].deletedAt /\ table[i].clickCount = 0
    IN  SelectSeq([i \in Ids(table) |-> i], Zero)

\* urlRepository.update(url.id, { clickCount: actualCount })
SetCount(table, id, actualCount) ==
    [table EXCEPT ![id].clickCount = actualCount, ![id].ver = @ + 1]

\* the for loop moves to the next url, or the task ends
SyncNext(p, pr) ==
    IF pr.k < Len(pr.items)
    THEN [procs EXCEPT ![p] = [pr EXCEPT !.k = pr.k + 1, !.pc = "syncCount"]]
    ELSE [procs EXCEPT ![p] = IdleProc]

StartSync(p) ==
    /\ Free(p)
    /\ ops < MaxOps
    /\ ops' = ops + 1
    /\ procs' = [procs EXCEPT ![p] =
           [IdleProc EXCEPT !.op = "sync", !.pc = "syncFind"]]
    /\ UNCHANGED <<urls, cache, clickRows, queue, jobs, now, clicks, isDevelopment, admitted, users, calls, lastResp, retVer>>

\* const urls = await this.urlRepository.find({ where: { clickCount: 0 } })
SyncFind(p) ==
    LET pr == procs[p]
        found == ZeroCountUrls(urls)
    IN  /\ pr.pc = "syncFind"
        /\ procs' = [procs EXCEPT ![p] =
               IF found = <<>> THEN IdleProc
               ELSE [pr EXCEPT !.items = found, !.k = 1, !.pc = "syncCount"]]
        /\ UNCHANGED <<urls, cache, clickRows, queue, jobs, now, clicks, isDevelopment, admitted, users, calls, lastResp, retVer, ops>>

\* const actualCount = await this.clickRepository.count({ where: { urlId } });
\* url.clickCount is the 0 the find selected
SyncCount(p) ==
    LET pr == procs[p]
        actualCount == clickRows[pr.items[pr.k]]
    IN  /\ pr.pc = "syncCount"
        /\ procs' = IF 0 # actualCount
                     THEN [procs EXCEPT ![p] =
                             [pr EXCEPT !.n = actualCount, !.pc = "syncUpdate"]]
                     ELSE SyncNext(p, pr)
        /\ UNCHANGED <<urls, cache, clickRows, queue, jobs, now, clicks, isDevelopment, admitted, users, calls, lastResp, retVer, ops>>

\* await this.urlRepository.update(url.id, { clickCount: actualCount })
SyncUpdate(p) ==
    LET pr == procs[p] IN
    /\ pr.pc = "syncUpdate"
    /\ urls' = SetCount(urls, pr.items[pr.k], pr.n)
    /\ procs' = SyncNext(p, pr)
    /\ UNCHANGED <<cache, clickRows, queue, jobs, now, clicks, isDevelopment, admitted, users, calls, lastResp, retVer, ops>>

----------------------------------------------------------------------------
(* AuthService: login, refreshAccessToken, logout of one user *)

\* the refresh tokens by the order of their issue; 0 is not a token
Tokens == 0..(MaxOps + 1)

\* the user has registered: refresh token 1 was issued and its hash stored
RegisteredUser ==
    [refreshToken |-> HashToken(1), issued |-> 1, revoked |-> 0, used |-> {}]

\* jwtService.verify(refreshToken): it throws for a text that is not a token of
\* this system; then the findOne is awaited
StartRefresh(p, token) ==
    /\ token <= users.issued
    /\ Free(p)
    /\ ops < MaxOps
    /\ ops' = ops + 1
    /\ LET pr == [IdleProc EXCEPT !.op = "refresh", !.pc = "rfFind", !.tok = token,
                                  !.late = (token # 0 /\ token <= users.revoked)]
       IN  IF token = 0
           THEN /\ lastResp' = Response(pr, "Unauthorized")
                /\ UNCHANGED procs
           ELSE /\ procs' = [procs EXCEPT ![p] = pr]
                /\ UNCHANGED lastResp
    /\ UNCHANGED <<urls, cache, clickRows, queue, jobs, now, clicks, isDevelopment, admitted, users, calls, retVer>>

\* const user = await this.userRepository.findOne({ where: { id: payload.sub } });
\* if (!user || !user.refreshToken) throw
RfFind(p) ==
    LET pr == procs[p] IN
    /\ pr.pc = "rfFind"
    /\ IF users.refreshToken = <<>>
       THEN Return(p, "Unauthorized")
       ELSE /\ procs' = [procs EXCEPT ![p] =
                   [pr EXCEPT !.hash = users.refreshToken, !.pc = "rfCompare"]]
            /\ UNCHANGED lastResp
    /\ UNCHANGED <<urls, cache, clickRows, queue, jobs, now, clicks, isDevelopment, admitted, users, calls, retVer, ops>>

\* await bcrypt.compare(refreshToken, user.refreshToken); then generateTokens
\* signs the next refresh token
RfCompare(p) ==
    LET pr == procs[p] IN
    /\ pr.pc = "rfCompare"
    /\ IF ~CompareToken(pr.tok, pr.hash)
       THEN /\ Return(p, "Unauthorized")
            /\ UNCHANGED users
       ELSE /\ users' = [users EXCEPT !.issued = @ + 1]
            /\ procs' = [procs EXCEPT ![p] =
                   [pr EXCEPT !.n = users.issued + 1, !.pc = "rfSave"]]
            /\ UNCHANGED lastResp
    /\ UNCHANGED <<urls, cache, clickRows, queue, jobs, now, clicks, isDevelopment, admitted, calls, retVer, ops>>

\* user.refreshToken = await bcrypt.hash(tokens.refreshToken, 10);
\* await this.userRepository.save(user); return tokens
RfSave(p) ==
    LET pr == procs[p] IN
    /\ pr.pc = "rfSave"
    /\ users' = [users EXCEPT !.refreshToken = HashToken(pr.n),
                              !.used = @ \cup {pr.tok}]
    /\ ReturnAs(p, [pr EXCEPT !.val = <<pr.n>>], "OK")
    /\ UNCHANGED <<urls, cache, clickRows, queue, jobs, now, clicks, isDevelopment, admitted, calls, retVer, ops>>

\* logout: await this.userRepository.update(userId, { refreshToken: null })
Logout ==
    /\ ops < MaxOps
    /\ ops' = ops + 1
    /\ users' = [users EXCEPT !.refreshToken = <<>>, !.revoked = users.issued]
    /\ UNCHANGED <<urls, cache, clickRows, queue, jobs, now, clicks, isDevelopment, admitted, calls, procs, lastResp, retVer>>

\* login with the right password
StartLogin(p) ==
    /\ Free(p)
    /\ ops < MaxOps
    /\ ops' = ops + 1
    /\ procs' = [procs EXCEPT ![p] = [IdleProc EXCEPT !.op = "login", !.pc = "lgFind"]]
    /\ UNCHANGED <<urls, cache, clickRows, queue, jobs, now, clicks, isDevelopment, admitted, users, calls, lastResp, retVer>>

\* const user = await this.userRepository.findOne({ where: { email } }); the
\* user is active; await bcrypt.compare(password, user.password) gives true
LgFind(p) ==
    LET pr == procs[p] IN
    /\ pr.pc = "lgFind"
    /\ procs' = [procs EXCEPT ![p] =
           [pr EXCEPT !.hash = users.refreshToken, !.pc = "lgTouch"]]
    /\ UNCHANGED <<urls, cache, clickRows, queue, jobs, now, clicks, isDevelopment, admitted, users, calls, lastResp, retVer, ops>>

\* user.lastLoginAt = new Date(); await this.userRepository.save(user): the
\* columns of the entity held that differ from the row are written; then
\* generateTokens signs the next refresh token
LgTouch(p) ==
    LET pr == procs[p] IN
    /\ pr.pc = "lgTouch"
    /\ users' = [users EXCEPT !.refreshToken = pr.hash, !.issued = @ + 1]
    /\ procs' = [procs EXCEPT ![p] =
           [pr EXCEPT !.n = users.issued + 1, !.pc = "lgSave"]]
    /\ UNCHANGED <<urls, cache, clickRows, queue, jobs, now, clicks, isDevelopment, admitted, calls, lastResp, retVer, ops>>

\* user.refreshToken = await bcrypt.hash(refreshToken, 10);
\* await this.userRepository.save(user); return: the user has logged in again
LgSave(p) ==
    LET pr == procs[p] IN
    /\ pr.pc = "lgSave"
    /\ users' = [users EXCEPT !.refreshToken = HashToken(pr.n), !.revoked = 0]
    /\ procs' = [q \in Procs |->
                   IF q = p THEN IdleProc ELSE [procs[q] EXCEPT !.late = FALSE]]
    /\ lastResp' = Response([pr EXCEPT !.val = <<pr.n>>], "OK")
    /\ UNCHANGED <<urls, cache, clickRows, queue, jobs, now, clicks, isDevelopment, admitted, calls, retVer, ops>>

----------------------------------------------------------------------------
(* The store the requests below start from: one link of short code "a", in *)
(* any of the states create, update, delete and the clock can bring it to  *)

NoCache == [k \in CacheKeys |-> <<>>]

PlainLink == NewUrl("d1", "a", FALSE, "", 0, 0)

StoredLinks ==
    { PlainLink,
      NewUrl("d1", "a", FALSE, "p1", 0, 0),          \* password-protected
      NewUrl("d1", "a", FALSE, "", 0, 1),            \* maxClicks: 1
      NewUrl("d1", "a", FALSE, "", 1, 0),            \* expiresAt in the past
      [PlainLink EXCEPT !.isActive = FALSE],         \* deactivated by updateUrl
      [PlainLink EXCEPT !.deletedAt = TRUE] }        \* soft-deleted by deleteUrl

\* `waiting` ClickEvents wait in the queue, left there by as many redirects, which
\* also filled the lookup cache
InitStore(links, waiting) ==
    /\ urls \in { <<l>> : l \in links }
    /\ cache = [c \in CacheKeys |->
                  IF waiting > 0 /\ c = urls[1].shortCode THEN <<urls[1]>> ELSE <<>>]
    /\ clickRows = [i \in UrlIds |-> 0]
    /\ queue = [i \in UrlIds |-> IF i = 1 THEN waiting ELSE 0]
    /\ jobs = <<>>
    /\ clicks = <<>>
    /\ calls = NoCalls
    /\ isDevelopment = TRUE
    /\ admitted = NoAdmitted
    /\ users = NoUsers
    /\ procs = [p \in Procs |-> IdleProc]
    /\ lastResp = NoResp
    /\ retVer = [c \in Codes |-> 0]
    /\ ops = 0

(* Redirects and the click pipeline *)

\* requests for the stored code with any password, and for an unknown code
Requests == { <<"a", pw>> : pw \in Passwords } \cup { <<"b", "">> }

Init ==
    /\ InitStore(StoredLinks, 0)
    /\ now = 2

Next ==
    \/ \E p \in Procs, r \in Requests : StartRedirect(p, r[1], r[2])
    \/ \E p \in Procs : ByCode(p)
    \/ \E p \in Procs : CacheGet(p)
    \/ \E p \in Procs : Find(p)
    \/ \E p \in Procs : CacheSet(p)
    \/ \E p \in Procs : Check(p)
    \/ \E p \in Procs : Enqueue(p)
    \/ \E p \in Procs, i \in UrlIds : StartWorker(p, i)
    \/ \E p \in Procs : SaveClick(p)
    \/ \E p \in Procs : ClickIncrement(p)
    \/ \E p \in Procs : ClickInvalidate(p)

Spec == Init /\ [][Next]_vars

----------------------------------------------------------------------------
(* Properties of the redirect path and the click pipeline (Spec) *)

Denials == {"Deactivated", "Expired", "QuotaExceeded", "PasswordRequired",
            "PasswordMismatch"}

\* the rows of that short code, tombstones included
RowsOf(shortCode) == { i \in Ids(urls) : urls[i].shortCode = shortCode }

NoIncrementInFlight ==
    \A p \in Procs : procs[p].op \notin {"click", "increment"}

\* C2: a redirect request that starts when the stored clickCount of a link with
\* maxClicks = q > 0 has reached q is denied with QuotaExceeded, status 400,
\* whatever the lookup cache holds.
C2_QuotaEnforced ==
    (lastResp.op = "redirect" /\ lastResp.full)
        => (lastResp.reason = "QuotaExceeded" /\ lastResp.status = 400)

\* the redirect requests of the link answered 302 so far: each left one
\* ClickEvent, which waits in the queue, is held by a worker or has become a row
Answered302(id) ==
    queue[id] + clickRows[id]
      + Cardinality({ p \in Procs : /\ procs[p].op = "click" /\ procs[p].id = id
                                    /\ procs[p].pc = "saveClick" })

\* C32: for a link with maxClicks = q > 0 the number of redirect requests
\* answered 302 never exceeds q, whatever requests run concurrently and
\* whatever click events wait unprocessed.
C32_QuotaNeverExceeded ==
    \A i \in Ids(urls) :
        urls[i].maxClicks > 0 => Answered302(i) <= urls[i].maxClicks

\* C3: once every operation that increments a click counter has completed, no
\* lookup cache entry carries a clickCount lower than the stored one.
C3_IncrementInvalidatesLookup ==
    NoIncrementInFlight =>
        \A i \in Ids(urls) :
            cache[urls[i].shortCode] # <<>> =>
                cache[urls[i].shortCode][1].clickCount >= urls[i].clickCount

\* C7: a ClickEvent is enqueued only by a request the access policy has
\* authorized: no request in flight has enqueued before its policy decision, a
\* request answered with an error enqueued nothing, and a link that no request
\* can be authorized for has no waiting event, no Click row and no count.
C7_EnqueueOnlyAfterAuthorization ==
    /\ \A p \in Procs :
          procs[p].pc \in {"byCode", "get", "find", "set", "check"}
              => ~procs[p].enq
    /\ (lastResp.op = "redirect" /\ lastResp.reason # "OK") => ~lastResp.enq
    /\ \A i \in Ids(urls) :
          (urls[i].deletedAt \/ ~urls[i].isActive
             \/ (urls[i].expiresAt # 0 /\ now > urls[i].expiresAt))
          => (queue[i] = 0 /\ clickRows[i] = 0 /\ urls[i].clickCount = 0)

\* C7 witness: a redirect was denied and nothing is queued or counted.
C7_Witness ==
    /\ lastResp.op = "redirect" /\ lastResp.reason \in Denials
    /\ \A i \in Ids(urls) : queue[i] = 0 /\ clickRows[i] = 0

\* C8: the redirect endpoint answers 302 with Location = the destination exactly
\* when the policy succeeded, 404 exactly for an unknown or soft-deleted code and
\* 400 for every denial; a 302 is given only for a live, active, unexpired link
\* and, if the link has a password, only for the password matching its hash.
C8_RedirectResponses ==
    lastResp.op = "redirect" =>
        /\ lastResp.status \in {302, 400, 404}
        /\ lastResp.status = 302 <=> lastResp.reason = "OK"
        /\ lastResp.status = 400 <=> lastResp.reason \in Denials
        /\ lastResp.status = 404 <=>
              \A i \in RowsOf(lastResp.code) : urls[i].deletedAt
        /\ lastResp.status = 302 =>
              \E i \in RowsOf(lastResp.code) :
                  /\ lastResp.location = urls[i].originalUrl
                  /\ ~urls[i].deletedAt /\ urls[i].isActive
                  /\ ~(urls[i].expiresAt # 0 /\ now > urls[i].expiresAt)
                  /\ urls[i].password # NoHash =>
                        Compare(lastResp.pw, urls[i].password)
        /\ lastResp.status # 302 => lastResp.location = ""

\* C8 witness: a password-protected link was redirected from the cache.
C8_Witness ==
    /\ lastResp.op = "redirect" /\ lastResp.status = 302
    /\ \E i \in RowsOf(lastResp.code) : urls[i].password # NoHash
    /\ cache[lastResp.code] # <<>>
    /\ ops = MaxRedirects

\* C14: a redirect whose lookup-cache get finds an entry has read and reads
\* nothing from the urls table and evaluates the cached payload; on a miss the
\* row is read, and if found is written whole under the code's lookup key
\* before the policy is evaluated; a miss for an unknown code is answered
\* NotFound and leaves the cache as it is.
C14_CacheAsideReadPath ==
    [][\A p \in Procs :
         (procs'[p] # procs[p] /\ procs[p].op = "redirect")
         => LET pr == procs[p]
                f  == FindByShortCode(urls, pr.code)
            IN  /\ (pr.pc = "get" /\ cache[pr.code] # <<>>)
                      => /\ pr.rd = 0
                         /\ procs'[p].pc = "check"
                         /\ procs'[p].ent = cache[pr.code]
                /\ (pr.pc = "get" /\ cache[pr.code] = <<>>)
                      => procs'[p].pc = "find"
                /\ (pr.pc = "find" /\ f # <<>>)
                      => /\ procs'[p].pc = "set"
                         /\ procs'[p].ent = <<urls[f[1]]>>
                /\ (pr.pc = "find" /\ f = <<>>)
                      => /\ lastResp'.reason = "NotFound"
                         /\ cache' = cache
                /\ pr.pc = "set"
                      => /\ cache' = [cache EXCEPT ![pr.code] = pr.ent]
                         /\ procs'[p].pc = "check"
      ]_vars

----------------------------------------------------------------------------
(* getOriginalUrl against updateUrl, deleteUrl and incrementClickCount *)

UpdateDtos == {Deactivate, SetQuota}

InitCoherence ==
    /\ InitStore({PlainLink}, 0)
    /\ now = 2

NextCoherence ==
    \/ \E p \in Procs : StartResolve(p, "a", "")
    \/ \E p \in Procs : CacheGet(p)
    \/ \E p \in Procs : Find(p)
    \/ \E p \in Procs : CacheSet(p)
    \/ \E p \in Procs : Check(p)
    \/ \E p \in Procs, i \in Ids(urls), d \in UpdateDtos : StartUpdate(p, i, d)
    \/ \E p \in Procs : UpdRead(p)
    \/ \E p \in Procs : UpdSave(p)
    \/ \E p \in Procs : UpdDel(p)
    \/ \E p \in Procs, i \in Ids(urls) : StartDelete(p, i)
    \/ \E p \in Procs : DelRead(p)
    \/ \E p \in Procs : DelRemove(p)
    \/ \E p \in Procs : DelDel(p)
    \/ \E p \in Procs, i \in Ids(urls) : StartIncrement(p, i)
    \/ \E p \in Procs : IncIncrement(p)
    \/ \E p \in Procs : IncFind(p)
    \/ \E p \in Procs : IncDel(p)

SpecCoherence == InitCoherence /\ [][NextCoherence]_vars

\* C1: a resolve that starts after updateUrl, deleteUrl or incrementClickCount
\* has returned never evaluates a payload older than the write of that mutation.
C1_CacheCoherence ==
    \A p \in Procs :
        (procs[p].op = "resolve" /\ procs[p].pc = "check")
            => procs[p].ent[1].ver >= procs[p].sv

----------------------------------------------------------------------------
(* Concurrent increments of one counter: click jobs and incrementClickCount *)

InitCount ==
    /\ InitStore({PlainLink}, MaxOps)
    /\ now = 2

NextCount ==
    \/ \E p \in Procs, i \in Ids(urls) : StartWorker(p, i)
    \/ \E p \in Procs : SaveClick(p)
    \/ \E p \in Procs : ClickIncrement(p)
    \/ \E p \in Procs : ClickInvalidate(p)
    \/ \E p \in Procs, i \in Ids(urls) : StartIncrement(p, i)
    \/ \E p \in Procs : IncIncrement(p)
    \/ \E p \in Procs : IncFind(p)
    \/ \E p \in Procs : IncDel(p)

SpecCount == InitCount /\ [][NextCount]_vars

\* the increment operations on url 1 whose UPDATE has been executed: the jobs
\* taken and the incrementClickCount calls started, less those still before it
IncrementsExecuted ==
    (MaxOps - queue[1]) + ops
    - Cardinality({ p \in Procs :
          procs[p].pc \in {"saveClick", "clickIncrement", "incIncrement"} })

\* C4: with only click jobs and incrementClickCount calls writing the counter,
\* in any interleaving, the stored clickCount is its value before (0) plus the
\* number of increments executed; when all N have run it is N.
C4_AtomicCounting == urls[1].clickCount = IncrementsExecuted

\* C4 witness: a click job and an incrementClickCount call stand before their
\* UPDATE at the same time, others having already incremented.
C4_Witness ==
    /\ \E p, q \in Procs :
          procs[p].pc = "clickIncrement" /\ procs[q].pc = "incIncrement"
    /\ urls[1].clickCount >= 2

----------------------------------------------------------------------------
(* Writers of the urls row against the click pipeline: updateUrl, deleteUrl, *)
(* syncClickCounts                                                          *)

InitMonotone ==
    /\ InitStore({PlainLink}, MaxRedirects)
    /\ now = 2

NextMonotone ==
    \/ \E p \in Procs, i \in Ids(urls) : StartWorker(p, i)
    \/ \E p \in Procs : SaveClick(p)
    \/ \E p \in Procs : ClickIncrement(p)
    \/ \E p \in Procs : ClickInvalidate(p)
    \/ \E p \in Procs, i \in Ids(urls) : StartUpdate(p, i, Retitle)
    \/ \E p \in Procs : UpdRead(p)
    \/ \E p \in Procs : UpdSave(p)
    \/ \E p \in Procs : UpdDel(p)
    \/ \E p \in Procs, i \in Ids(urls) : StartDelete(p, i)
    \/ \E p \in Procs : DelRead(p)
    \/ \E p \in Procs : DelRemove(p)
    \/ \E p \in Procs : DelDel(p)
    \/ \E p \in Procs : StartSync(p)
    \/ \E p \in Procs : SyncFind(p)
    \/ \E p \in Procs : SyncCount(p)
    \/ \E p \in Procs : SyncUpdate(p)

SpecMonotone == InitMonotone /\ [][NextMonotone]_vars

\* C5: no step of any writer of the urls row takes a link's clickCount from a
\* value to a smaller one.
C5_CountNeverDecreases ==
    [][\A i \in Ids(urls) : urls'[i].clickCount >= urls[i].clickCount]_vars

\* C19: the MaxRedirects ClickEvents left by as many successful redirects are
\* processed without a failing attempt; once the queue has drained and nothing
\* is in flight the link has exactly that many Click rows and its stored
\* clickCount equals that number.
C19_EventualCounting ==
    ((\A p \in Procs : procs[p].op = "idle") /\ queue[1] = 0)
        => /\ clickRows[1] = MaxRedirects
           /\ urls[1].clickCount = MaxRedirects

\* C25: the write of updateUrl leaves shortCode, destination, password hash
\* and clickCount of the row as they are in the store at the time of the write
\* (no increment of the pipeline is lost).
C25_UpdateFrame ==
    [][\A p \in Procs :
         (procs[p].pc = "updSave" /\ procs'[p].pc = "updDel")
             => LET old == urls[procs[p].id]
                    new == urls'[procs[p].id]
                IN  /\ new.shortCode = old.shortCode
                    /\ new.originalUrl = old.originalUrl
                    /\ new.password = old.password
                    /\ new.clickCount = old.clickCount
      ]_vars

----------------------------------------------------------------------------
(* The access policy on every link state: getOriginalUrl stands before its  *)
(* checks with the payload it resolved                                      *)

LinkStates ==
    { [PlainLink EXCEPT !.deletedAt = del, !.isActive = act, !.expiresAt = exp,
                        !.maxClicks = max, !.clickCount = cnt, !.password = hash] :
        del \in BOOLEAN, act \in BOOLEAN, exp \in Times, max \in 0..MaxQuota,
        cnt \in 0..MaxQuota, hash \in {NoHash, Hash("p1")} }

InitPolicy ==
    /\ urls \in { <<l>> : l \in LinkStates }
    /\ cache = NoCache
    /\ clickRows = [i \in UrlIds |-> 0]
    /\ queue = [i \in UrlIds |-> 0]
    /\ jobs = <<>>
    /\ clicks = <<>>
    /\ calls = NoCalls
    /\ isDevelopment = TRUE
    /\ admitted = NoAdmitted
    /\ users = NoUsers
    /\ now \in Times
    /\ \E pw \in Passwords :
          procs = [p \in Procs |->
                     IF p = 1
                     THEN [IdleProc EXCEPT !.op = "resolve", !.pc = "check",
                                           !.code = "a", !.pw = pw,
                                           !.ent = <<urls[1]>>]
                     ELSE IdleProc]
    /\ lastResp = NoResp
    /\ retVer = [c \in Codes |-> 0]
    /\ ops = 1

NextPolicy == \E p \in Procs : Check(p)

SpecPolicy == InitPolicy /\ [][NextPolicy]_vars

\* the checks in the order the specification lists them: <<fails, reason>>
PolicyChecks(url, password, t) ==
    << <<url.deletedAt, "Gone">>,
       <<~url.isActive, "Deactivated">>,
       <<url.expiresAt # 0 /\ url.expiresAt < t, "Expired">>,
       <<url.maxClicks > 0 /\ url.clickCount >= url.maxClicks, "QuotaExceeded">>,
       <<url.password # NoHash /\ password = "", "PasswordRequired">>,
       <<url.password # NoHash /\ password # "" /\ url.password # Hash(password),
         "PasswordMismatch">> >>

FirstFailing(checks) ==
    LET failing == { k \in 1..Len(checks) : checks[k][1] }
    IN  IF failing = {} THEN "OK"
        ELSE checks[CHOOSE k \in failing : \A j \in failing : k <= j][2]

\* C6: for every link state and supplied password, resolve reports the first
\* failing check in the order Gone, Deactivated, Expired, QuotaExceeded,
\* PasswordRequired, PasswordMismatch, and returns the destination only if none
\* fails; a live, active link both expired and over quota reports Expired.
C6_PolicyOrdering ==
    lastResp.op = "resolve" =>
        /\ lastResp.reason = FirstFailing(PolicyChecks(urls[1], lastResp.pw, now))
        /\ lastResp.location =
              (IF lastResp.reason = "OK" THEN urls[1].originalUrl ELSE "")

\* C6 witness: a live, active link that is expired and over quota was resolved
\* and reported Expired.
C6_Witness ==
    /\ lastResp.op = "resolve" /\ lastResp.reason = "Expired"
    /\ ~urls[1].deletedAt /\ urls[1].isActive
    /\ urls[1].maxClicks > 0 /\ urls[1].clickCount >= urls[1].maxClicks

----------------------------------------------------------------------------
(* Concurrent creation of links *)

MaxBatch == 2

CreateDtos == { CreateDto("", 0), CreateDto("b", 0), CreateDto("b", 1) }

BulkItems == { CreateDto("", 0), CreateDto("b", 0) }

RECURSIVE Batches(_)
Batches(n) ==
    IF n = 0 THEN { <<>> }
    ELSE Batches(n - 1) \cup
         { Append(b, i) : b \in { x \in Batches(n - 1) : Len(x) = n - 1 },
                          i \in BulkItems }

InitCreate ==
    /\ urls = <<>>
    /\ cache = NoCache
    /\ clickRows = [i \in UrlIds |-> 0]
    /\ queue = [i \in UrlIds |-> 0]
    /\ jobs = <<>>
    /\ clicks = <<>>
    /\ calls = NoCalls
    /\ isDevelopment = TRUE
    /\ admitted = NoAdmitted
    /\ users = NoUsers
    /\ now = 2
    /\ procs = [p \in Procs |-> IdleProc]
    /\ lastResp = NoResp
    /\ retVer = [c \in Codes |-> 0]
    /\ ops = 0

NextCreate ==
    \/ \E p \in Procs, d \in CreateDtos : StartCreate(p, d)
    \/ \E p \in Procs : CrtFindAlias(p)
    \/ \E p \in Procs, c \in Codes : CrtGenerate(p, c)
    \/ \E p \in Procs : CrtSave(p)
    \/ \E p \in Procs, b \in Batches(MaxBatch) \ { <<>> } : StartBulk(p, b)
    \/ \E p \in Procs : BlkFindAlias(p)
    \/ \E p \in Procs, c \in Codes : BlkGenerate(p, c)
    \/ \E p \in Procs : BlkSave(p)
    \/ \E p \in Procs : BlkDeadlock(p)
    \/ \E p \in Procs : BlkCommit(p)

SpecCreate == InitCreate /\ [][NextCreate]_vars

\* C9: under any interleaving of createShortUrl and bulkCreateShortUrls calls,
\* no two non-deleted links in the store share a short code.
C9_ShortCodeUnique ==
    \A i, j \in Ids(urls) :
        (i # j /\ ~urls[i].deletedAt /\ ~urls[j].deletedAt)
            => urls[i].shortCode # urls[j].shortCode

\* C9 witness: two links are stored and a racing insert of a taken code was
\* rejected by the unique index.
C9_Witness ==
    /\ Len(urls) >= 2
    /\ lastResp.op \in {"create", "bulk"} /\ lastResp.reason = "QueryFailed"

\* C10: createShortUrl with a custom alias (no tombstone holding it) either
\* succeeds or, the alias being taken, fails with Conflict, also when two
\* requests with the same alias race; a past expiry is the one other failure.
C10_TakenAliasIsConflict ==
    ( /\ lastResp.op = "create" /\ lastResp.code # ""
      /\ \A i \in RowsOf(lastResp.code) : ~urls[i].deletedAt )
        => lastResp.reason \in {"OK", "Conflict", "Validation"}

\* C11: generateUniqueShortCode draws at most 5 candidates; a candidate is
\* returned only if the lookup of that candidate found no link; when the 5th
\* candidate collides too the request fails with a plain Error (status 500)
\* and the step persists nothing.
C11_GenerationBounded ==
    [][\A p \in Procs :
         (procs[p].pc \in {"crtGenerate", "blkGenerate"} /\ procs'[p] # procs[p])
         => LET tries == IF procs[p].pc = "crtGenerate" THEN procs[p].k
                         ELSE procs[p].n
            IN  /\ tries <= 5
                /\ procs'[p].pc \in {"crtSave", "blkSave"}
                      => FindByShortCode(urls, procs'[p].ent[1].shortCode) = <<>>
                /\ (procs'[p].op = "idle" /\ lastResp'.reason = "Error")
                      => /\ tries = 5
                         /\ urls' = urls
                         /\ lastResp'.status = 500
      ]_vars

\* C11 witness: a createShortUrl call gave up after its candidates collided
\* with stored links, and the store holds the rows it held before.
C11_Witness ==
    /\ lastResp.op = "create" /\ lastResp.reason = "Error"
    /\ Len(urls) = 1

----------------------------------------------------------------------------
(* Validation of create and update requests *)

RejectedDestinations ==
    { "not a url", "ftp://example.com/f", "http://localhost:3000",
      "http://127.0.0.1/", "http://[::1]/" }

ValidateDtos ==
    { [CreateDto("", 0) EXCEPT !.originalUrl = u] : u \in RejectedDestinations }
      \cup { CreateDto("", 0), CreateDto("", 1) }

InitValidate ==
    /\ urls = <<PlainLink>>
    /\ cache \in { NoCache, [NoCache EXCEPT !["a"] = <<PlainLink>>] }
    /\ clickRows = [i \in UrlIds |-> 0]
    /\ queue = [i \in UrlIds |-> 0]
    /\ jobs = <<>>
    /\ clicks = <<>>
    /\ calls = NoCalls
    /\ isDevelopment = TRUE
    /\ admitted = NoAdmitted
    /\ users = NoUsers
    /\ now = 2
    /\ procs = [p \in Procs |-> IdleProc]
    /\ lastResp = NoResp
    /\ retVer = [c \in Codes |-> 0]
    /\ ops = 0

NextValidate ==
    \/ \E p \in Procs, d \in ValidateDtos : StartCreate(p, d)
    \/ \E p \in Procs, c \in Codes : CrtGenerate(p, c)
    \/ \E p \in Procs : CrtSave(p)
    \/ \E p \in Procs, t \in Times : StartUpdate(p, 1, SetExpiry(t))
    \/ \E p \in Procs : UpdRead(p)
    \/ \E p \in Procs : UpdSave(p)
    \/ \E p \in Procs : UpdDel(p)

SpecValidate == InitValidate /\ [][NextValidate]_vars

\* the request held by pr must be rejected by validation
MustReject(pr) ==
    \/ pr.op = "create"
        /\ \/ pr.dto.originalUrl \in RejectedDestinations
           \/ PastExpiry(pr.dto.expiresAt, now)
    \/ pr.op = "update"
        /\ pr.dto.expiresAt # <<>> /\ PastExpiry(pr.dto.expiresAt[1], now)

\* C12: createShortUrl with a malformed, non-HTTP(S) or blocked-host destination
\* or a past expiry, and updateUrl with a past expiry, write neither the urls
\* table nor the lookup cache and end with a validation error (status 400); a
\* destination that must be rejected never gets past validateUrl.
C12_ValidationLeavesStateUnchanged ==
    [][ /\ \A p \in Procs :
             /\ (procs'[p].op = "create")
                   => procs'[p].dto.originalUrl \notin RejectedDestinations
             /\ (procs'[p] # procs[p] /\ MustReject(procs[p]))
                   => /\ urls' = urls /\ cache' = cache
                      /\ procs'[p].op = "idle"
                            => (lastResp'.reason \in {"Validation", "Error"}
                                /\ lastResp'.status \in {400, 500})
        /\ (lastResp' # lastResp /\ lastResp'.reason = "Validation")
              => (urls' = urls /\ cache' = cache /\ lastResp'.status = 400)
      ]_vars

----------------------------------------------------------------------------
(* Bulk creation with taken aliases and past expiries *)

AliasItems == { CreateDto("a", 0), CreateDto("b", 0), CreateDto("b", 1) }

AliasBatches == UNION { [1..m -> AliasItems] : m \in 1..MaxBatch }

InitBulk ==
    /\ urls \in { <<>>, <<PlainLink>>, <<[PlainLink EXCEPT !.deletedAt = TRUE]>> }
    /\ cache = NoCache
    /\ clickRows = [i \in UrlIds |-> 0]
    /\ queue = [i \in UrlIds |-> 0]
    /\ jobs = <<>>
    /\ clicks = <<>>
    /\ calls = NoCalls
    /\ isDevelopment = TRUE
    /\ admitted = NoAdmitted
    /\ users = NoUsers
    /\ now = 2
    /\ procs = [p \in Procs |-> IdleProc]
    /\ lastResp = NoResp
    /\ retVer = [c \in Codes |-> 0]
    /\ ops = 0

NextBulk ==
    \/ \E p \in Procs, b \in AliasBatches : StartBulk(p, b)
    \/ \E p \in Procs : BlkFindAlias(p)
    \/ \E p \in Procs : BlkSave(p)
    \/ \E p \in Procs : BlkCommit(p)

SpecBulk == InitBulk /\ [][NextBulk]_vars

\* C13: a batch with valid destinations is never aborted: when it returns, the
\* rows it added are items with an expiry not in the past, every such item's
\* alias is now stored, created is the number of rows added and skipped the
\* rest of the batch.
C13_BulkPartialSuccess ==
    [][\A p \in Procs :
         (procs[p].op = "bulk" /\ procs'[p].op = "idle")
         => LET batch == procs[p].items
                added == { urls'[i].shortCode : i \in Ids(urls') \ Ids(urls) }
                good  == { batch[k].customAlias : k \in
                             { j \in 1..Len(batch) :
                                 ~PastExpiry(batch[j].expiresAt, now) } }
            IN  /\ lastResp'.reason = "OK"
                /\ lastResp'.n = Len(urls') - Len(urls)
                /\ Len(batch) - lastResp'.n >= 0
                /\ added \subseteq good
                /\ \A c \in good : \E i \in Ids(urls') : urls'[i].shortCode = c
      ]_vars

----------------------------------------------------------------------------
(* The redirect path, the mutations and the overview with a cache backend and
   a queue that may fail *)

InitFaults ==
    /\ urls = <<PlainLink>>
    /\ cache = NoCache
    /\ clickRows = [i \in UrlIds |-> IF i = 1 THEN 1 ELSE 0]
    /\ queue = [i \in UrlIds |-> 0]
    /\ jobs = <<>>
    /\ clicks = <<>>
    /\ calls = NoCalls
    /\ isDevelopment = TRUE
    /\ admitted = NoAdmitted
    /\ users = NoUsers
    /\ now = 2
    /\ procs = [p \in Procs |-> IdleProc]
    /\ lastResp = NoResp
    /\ retVer = [c \in Codes |-> 0]
    /\ ops = 0

NextFaults ==
    \/ \E p \in Procs : StartRedirect(p, "a", "")
    \/ \E p \in Procs : ByCode(p)
    \/ \E p \in Procs : CacheGet(p)
    \/ \E p \in Procs : CacheGetFails(p)
    \/ \E p \in Procs : Find(p)
    \/ \E p \in Procs : CacheSet(p)
    \/ \E p \in Procs : CacheSetFails(p)
    \/ \E p \in Procs : Check(p)
    \/ \E p \in Procs : Enqueue(p)
    \/ \E p \in Procs : EnqueueFails(p)
    \/ \E p \in Procs : StartUpdate(p, 1, Deactivate)
    \/ \E p \in Procs : UpdRead(p)
    \/ \E p \in Procs : UpdSave(p)
    \/ \E p \in Procs : UpdDel(p)
    \/ \E p \in Procs : StartDelete(p, 1)
    \/ \E p \in Procs : DelRead(p)
    \/ \E p \in Procs : DelRemove(p)
    \/ \E p \in Procs : DelDel(p)
    \/ \E p \in Procs : MutationDelFails(p)
    \/ \E p \in Procs : StartOverview(p, "a")
    \/ \E p \in Procs : WrapGet(p)
    \/ \E p \in Procs : WrapGetFails(p)
    \/ \E p \in Procs : OvFind(p)
    \/ \E p \in Procs : OvCount(p)
    \/ \E p \in Procs : OvAggregate(p)
    \/ \E p \in Procs : WrapSet(p)
    \/ \E p \in Procs : WrapSetFails(p)

SpecFaults == InitFaults /\ [][NextFaults]_vars

\* C15: no cache error reaches a caller: a request whose cache get failed is
\* answered from the urls table (a miss), an updateUrl or deleteUrl whose
\* cache delete failed has written the store and returns normally, and a
\* failed set changes neither the cache nor the answer.
C15_CacheFailureDegrades ==
    /\ lastResp.reason # "CacheError"
    /\ ("get" \in lastResp.flt /\ lastResp.reason # "NotFound")
          => lastResp.rd >= (IF lastResp.op = "redirect" THEN 2 ELSE 1)
    /\ ("get" \in lastResp.flt /\ lastResp.op = "overview"
                                /\ lastResp.reason = "OK")
          => lastResp.val[1].totalClicks = clickRows[1]
    /\ ("del" \in lastResp.flt)
          => /\ lastResp.reason = "OK"
             /\ urls[1].ver >= 1
    /\ \A p \in Procs :
          ("set" \in procs[p].flt /\ procs[p].pc = "check")
              => procs[p].ent[1].shortCode = procs[p].code /\ procs[p].rd >= 1

\* C15 witness: a redirect whose cache get and set both failed was answered 302
\* from the row it read.
C15_Witness ==
    /\ lastResp.op = "redirect" /\ lastResp.flt = {"get", "set"}
    /\ lastResp.reason = "OK" /\ lastResp.location = "d1"

\* C16: a redirect that the access policy authorized is answered 302 whatever
\* the outcome of enqueueing its ClickEvent.
C16_EnqueueFireAndForget ==
    [][\A p \in Procs :
         (procs[p].pc = "enqueue" /\ procs'[p] # procs[p])
             => (lastResp'.op = "redirect" /\ lastResp'.status = 302)
      ]_vars

----------------------------------------------------------------------------
(* The clicks queue: retries and dead-lettering *)

InitQueue ==
    /\ InitStore({PlainLink}, 0)
    /\ now = 2

NextQueue ==
    \/ \E f \in 0..attempts : QueueAdd(1, f)
    \/ \E p \in Procs, j \in 1..MaxJobs : TakeJob(p, j)
    \/ \E p \in Procs : SaveClick(p)
    \/ \E p \in Procs : ClickIncrement(p)
    \/ \E p \in Procs : ClickInvalidate(p)
    \/ \E p \in Procs : AttemptFails(p)
    \/ \E j \in 1..MaxJobs : BackoffElapsed(j)

SpecQueue == InitQueue /\ [][NextQueue]_vars

\* the worker runs every step that stays enabled
FairQueue ==
    /\ \A j \in 1..MaxJobs : WF_vars(\E p \in Procs : TakeJob(p, j))
    /\ \A j \in 1..MaxJobs : WF_vars(BackoffElapsed(j))
    /\ \A p \in Procs :
          WF_vars(SaveClick(p) \/ ClickIncrement(p) \/ ClickInvalidate(p)
                    \/ AttemptFails(p))

\* MaxJobs ClickEvents were added in the order of their index; each one either
\* never fails or may fail on every attempt
WaitingJob(mayFail) ==
    [urlId |-> 1, state |-> "waiting", attemptsMade |-> 0, mayFail |-> mayFail]

InitQueueFair ==
    /\ urls = <<PlainLink>>
    /\ cache = NoCache
    /\ clickRows = [i \in UrlIds |-> 0]
    /\ queue = [i \in UrlIds |-> 0]
    /\ jobs \in [1..MaxJobs -> { WaitingJob(0), WaitingJob(attempts) }]
    /\ now = 2
    /\ clicks = <<>>
    /\ isDevelopment = TRUE
    /\ admitted = NoAdmitted
    /\ users = NoUsers
    /\ calls = NoCalls
    /\ procs = [p \in Procs |-> IdleProc]
    /\ lastResp = NoResp
    /\ retVer = [c \in Codes |-> 0]
    /\ ops = 0

NextQueueFair ==
    \/ \E p \in Procs, j \in 1..MaxJobs : TakeJob(p, j)
    \/ \E p \in Procs : SaveClick(p)
    \/ \E p \in Procs : ClickIncrement(p)
    \/ \E p \in Procs : ClickInvalidate(p)
    \/ \E p \in Procs : AttemptFails(p)
    \/ \E j \in 1..MaxJobs : BackoffElapsed(j)

SpecQueueFair == InitQueueFair /\ [][NextQueueFair]_vars /\ FairQueue

JobState(j) == IF j <= Len(jobs) THEN jobs[j].state ELSE "none"

Active(j) == \E p \in Procs : procs[p].op = "click" /\ procs[p].k = j

\* C17: a job is attempted at most 3 times: it is waiting, active or delayed
\* with attempts left, or completed, or in the failed set after exactly 3 failed
\* attempts; a completed job saved its Click row; a job whose attempt threw is
\* never counted as completed without a later successful attempt.
C17_BoundedRetry ==
    /\ \A j \in 1..Len(jobs) :
          LET job == jobs[j] IN
          /\ job.attemptsMade <= 3
          /\ job.state \in {"waiting", "active", "delayed", "completed", "failed"}
          /\ job.state \in {"active", "delayed", "waiting"} => job.attemptsMade < 3
          /\ job.state = "delayed" => job.attemptsMade >= 1
          /\ job.state = "failed" => job.attemptsMade = 3
          /\ job.state = "active" <=> Active(j)
    /\ Cardinality({ j \in 1..Len(jobs) : jobs[j].state = "completed" })
          <= clickRows[1]
    /\ Cardinality({ j \in 1..Len(jobs) : jobs[j].state = "completed" })
          <= urls[1].clickCount

\* C17 witness: one job was dead-lettered after its third failed attempt and
\* another one completed on a retry.
C17_Witness ==
    \E i, j \in 1..Len(jobs) :
        /\ jobs[i].state = "failed" /\ jobs[i].attemptsMade = 3
        /\ jobs[j].state = "completed" /\ jobs[j].attemptsMade = 2

\* C18: a job that does not fail is eventually processed and persisted, also when
\* a job added before it keeps failing until it is dead-lettered.
C18_NoHeadOfLineBlocking ==
    \A j \in 1..MaxJobs :
        (j <= Len(jobs) /\ jobs[j].mayFail = 0)
            ~> (JobState(j) = "completed" /\ clickRows[1] >= 1)

\* C18 witness: the first job is in the failed set and the job added after it
\* has completed.
C18_Witness ==
    /\ Len(jobs) >= 2
    /\ jobs[1].state = "failed"
    /\ jobs[2].state = "completed" /\ jobs[2].mayFail = 0

----------------------------------------------------------------------------
(* Analytics reads and the click pipeline *)

\* the waiting ClickEvents at the start; their redirects filled the lookup cache
InitAnalytics ==
    /\ InitStore({PlainLink}, MaxRedirects)
    /\ now = 2

NextAnalytics ==
    \/ \E p \in Procs, i \in Intervals, d \in DayWindows :
          StartTimeline(p, "a", i, d)
    \/ \E p \in Procs : TlFind(p)
    \/ \E p \in Procs : TlFallbackFind(p)
    \/ \E p \in Procs : TlQuery(p)
    \/ \E p \in Procs : StartOverview(p, "a")
    \/ \E p \in Procs : OvFind(p)
    \/ \E p \in Procs : OvCount(p)
    \/ \E p \in Procs : OvAggregate(p)
    \/ \E p \in Procs : WrapGet(p)
    \/ \E p \in Procs : WrapSet(p)
    \/ \E p \in Procs, i \in UrlIds : StartWorker(p, i)
    \/ \E p \in Procs : SaveClick(p)
    \/ \E p \in Procs : ClickIncrement(p)
    \/ \E p \in Procs : ClickInvalidate(p)

SpecAnalytics == InitAnalytics /\ [][NextAnalytics]_vars

\* every analytics key of a short code
AnalyticsKeysOf(shortCode) ==
    { analyticsOverviewKey(shortCode), analyticsLocationsKey(shortCode),
      analyticsDevicesKey(shortCode), analyticsReferrersKey(shortCode) }
      \cup { analyticsTimelineKey(shortCode, i, d) : i \in Intervals,
                                                       d \in DayWindows }

\* C20: when processClickEvent completes for a link, the cache holds no
\* analytics entry of the link's short code: overview, locations, devices,
\* referrers and every timeline entry are gone.
C20_AnalyticsInvalidated ==
    [][\A p \in Procs :
         (procs[p].pc = "clickInvalidate" /\ procs'[p] # procs[p])
             => \A k \in AnalyticsKeysOf(urls[procs[p].id].shortCode) :
                    cache'[k] = <<>>
      ]_vars

\* C21: an overview request that starts after processClickEvent has completed
\* for a click reports a totalClicks that counts that click, whatever overview
\* requests were computing a cache miss meanwhile.
C21_AnalyticsFreshness ==
    [][\A p \in Procs :
         (procs[p].op = "overview" /\ procs'[p].op = "idle"
              /\ lastResp'.reason = "OK")
             => lastResp'.val[1].totalClicks >= procs[p].sv
      ]_vars

----------------------------------------------------------------------------
(* Overview requests one after another, the click pipeline, and the TTL *)

\* the client sends its overview requests one after another
NextInLine(p, shortCode) ==
    /\ \A q \in Procs : procs[q].op # "overview"
    /\ StartOverview(p, shortCode)

NextOverview ==
    \/ \E p \in Procs : NextInLine(p, "a")
    \/ \E p \in Procs : WrapGet(p)
    \/ \E p \in Procs : OvFind(p)
    \/ \E p \in Procs : OvCount(p)
    \/ \E p \in Procs : OvAggregate(p)
    \/ \E p \in Procs : WrapSet(p)
    \/ CacheExpires(analyticsOverviewKey("a"))
    \/ \E p \in Procs, i \in UrlIds : StartWorker(p, i)
    \/ \E p \in Procs : SaveClick(p)
    \/ \E p \in Procs : ClickIncrement(p)
    \/ \E p \in Procs : ClickInvalidate(p)

SpecOverview == InitAnalytics /\ [][NextOverview]_vars

\* C22: two overview requests for a code, the second sent after the first
\* was answered, with no click processed between them (from the start of the
\* first to the return of the second no click of the link was saved or is
\* being processed) return identical results, the second served from the
\* cache or recomputed.
C22_IdempotentAggregation ==
    [][\A p \in Procs :
         ( /\ procs[p].op = "overview" /\ procs'[p].op = "idle"
           /\ lastResp.op = "overview" /\ lastResp.code = procs[p].code
           /\ lastResp.sv = procs[p].sv
           /\ ClicksProcessed(procs[p].code) = procs[p].sv
           /\ clickRows[1] = procs[p].sv )
             => /\ lastResp'.reason = lastResp.reason
                /\ lastResp'.val = lastResp.val
      ]_vars

\* C23: for an existing link with no Click row, an analytics request (overview,
\* timeline) returns a zeroed result (totalClicks 0) and raises no error.
C23_ZeroClicksNoError ==
    [][\A p \in Procs :
         ( /\ procs[p].op \in {"overview", "timeline"} /\ procs'[p].op = "idle"
           /\ FindByShortCode(urls, procs[p].code) # <<>>
           /\ clickRows[1] = 0 )
             => /\ lastResp'.reason = "OK"
                /\ lastResp'.val = <<[totalClicks |-> 0]>>
      ]_vars

----------------------------------------------------------------------------
(* The click pipeline with the columns of its rows, and the referrer
   statistics read from them *)

InitClicks ==
    /\ urls = <<PlainLink>>
    /\ cache = NoCache
    /\ clickRows = [i \in UrlIds |-> 0]
    /\ queue = [i \in UrlIds |-> 0]
    /\ jobs = <<>>
    /\ now = 1
    /\ clicks = <<>>
    /\ calls = NoCalls
    /\ isDevelopment \in BOOLEAN
    /\ admitted = NoAdmitted
    /\ users = NoUsers
    /\ procs = [p \in Procs |-> IdleProc]
    /\ lastResp = NoResp
    /\ retVer = [c \in Codes |-> 0]
    /\ ops = 0

NextClicks ==
    \/ \E p \in Procs, dto \in ClickEvents : StartClick(p, dto)
    \/ \E p \in Procs : ClickGeo(p)
    \/ \E p \in Procs : SaveClick(p)
    \/ \E p \in Procs : ClickIncrement(p)
    \/ \E p \in Procs : ClickInvalidate(p)
    \/ \E p \in Procs : StartReferrers(p, "a")
    \/ \E p \in Procs : RefFind(p)
    \/ \E p \in Procs : WrapGet(p)
    \/ \E p \in Procs : RefFallbackFind(p)
    \/ \E p \in Procs : RefQuery(p)
    \/ \E p \in Procs : WrapSet(p)

SpecClicks == InitClicks /\ [][NextClicks]_vars

\* the Click rows of the link saved with no referer
NoRefererClicks(urlId) ==
    Cardinality({ i \in 1..Len(clicks) :
                    clicks[i].urlId = urlId /\ clicks[i].referer = "" })

\* C24: the referrer statistics computed from the store report the clicks
\* saved with no referer under "Direct" with their count, hold at most 20
\* entries and are ordered by click count descending.
C24_DirectReferrers ==
    [][\A p \in Procs :
         (procs[p].pc = "refQuery" /\ procs'[p].pc = "wrapSet")
             => LET res == procs'[p].val[1] IN
                /\ Len(res) <= referrerLimit
                /\ \A i, j \in 1..Len(res) :
                       i < j => res[i].clicks >= res[j].clicks
                /\ NoRefererClicks(procs[p].id) > 0
                       => \E i \in 1..Len(res) :
                             res[i] = Stat("Direct", NoRefererClicks(procs[p].id))
      ]_vars

\* C26: getLocation never throws: for every address of a ClickEvent the
\* pipeline goes on to save the row; a private address gets its mock location
\* in non-production and the null location in production, a public address
\* with no lookup result the null location.
C26_GeoNeverFails ==
    [][\A p \in Procs :
         (procs[p].pc = "geo" /\ procs'[p] # procs[p])
             => LET ip  == normalizeIP(procs[p].ent[1].ipAddress)
                    row == procs'[p].ent[1]
                    loc == Location(row.country, row.city)
                IN  /\ procs'[p].pc = "saveClick"
                    /\ (isPrivateIP(ip) /\ isDevelopment)
                          => \E i \in 1..Len(mockLocations) : loc = mockLocations[i]
                    /\ (isPrivateIP(ip) /\ ~isDevelopment) => loc = getNullLocation
                    /\ (~isPrivateIP(ip) /\ GeoLookup(ip) = <<>>)
                          => loc = getNullLocation
      ]_vars

----------------------------------------------------------------------------
(* deleteUrl against the caches filled by redirects and analytics requests *)

NextDelete ==
    \/ \E p \in Procs : StartRedirect(p, "a", "")
    \/ \E p \in Procs : ByCode(p)
    \/ \E p \in Procs : CacheGet(p)
    \/ \E p \in Procs : Find(p)
    \/ \E p \in Procs : CacheSet(p)
    \/ \E p \in Procs : Check(p)
    \/ \E p \in Procs : Enqueue(p)
    \/ \E p \in Procs : StartOverview(p, "a")
    \/ \E p \in Procs : OvFind(p)
    \/ \E p \in Procs : OvCount(p)
    \/ \E p \in Procs : OvAggregate(p)
    \/ \E p \in Procs : StartTimeline(p, "a", "day", 7)
    \/ \E p \in Procs : TlFind(p)
    \/ \E p \in Procs : TlFallbackFind(p)
    \/ \E p \in Procs : TlQuery(p)
    \/ \E p \in Procs : WrapGet(p)
    \/ \E p \in Procs : WrapSet(p)
    \/ \E p \in Procs : StartDelete(p, 1)
    \/ \E p \in Procs : DelRead(p)
    \/ \E p \in Procs : DelRemove(p)
    \/ \E p \in Procs : DelDel(p)

SpecDelete == InitFaults /\ [][NextDelete]_vars

\* C30: when deleteUrl returns, the cache holds neither the lookup entry nor
\* any analytics entry (overview, timeline, locations, devices, referrers) of
\* the deleted link's short code.
C30_DeleteInvalidatesAll ==
    [][\A p \in Procs :
         (procs[p].pc = "delDel" /\ procs'[p].op = "idle")
             => \A k \in {procs[p].ent[1].shortCode}
                         \cup AnalyticsKeysOf(procs[p].ent[1].shortCode) :
                    cache'[k] = <<>>
      ]_vars

----------------------------------------------------------------------------
(* Rate limiting: each IP sends its requests one after another; a counter
   may be reset by the admin or run out *)

InitRateLimit ==
    /\ urls = <<PlainLink>>
    /\ cache = NoCache
    /\ clickRows = [i \in UrlIds |-> 0]
    /\ queue = [i \in UrlIds |-> 0]
    /\ jobs = <<>>
    /\ now = 1
    /\ clicks = <<>>
    /\ isDevelopment = TRUE
    /\ admitted = NoAdmitted
    /\ users = NoUsers
    /\ calls = NoCalls
    /\ procs = [p \in Procs |-> IdleProc]
    /\ lastResp = NoResp
    /\ retVer = [c \in Codes |-> 0]
    /\ ops = 0

NextRateLimit ==
    \/ \E p \in Procs, ip \in RateIPs : SequentialCheck(p, ip, "default")
    \/ \E p \in Procs : RlGet(p)
    \/ \E p \in Procs : RlSet(p)
    \/ \E ip \in RateIPs : ResetRateLimit(ip)
    \/ \E ip \in RateIPs : CacheExpires(rateLimitKey(ip))

SpecRateLimit == InitRateLimit /\ [][NextRateLimit]_vars

\* C27: of the checks an IP sends one after another, starting from no
\* counter, the k-th is allowed with remaining = max - k while k <= max; every
\* further one is blocked with remaining 0 and leaves the counter as it is.
C27_RateLimitEnforced ==
    [][\A p \in Procs :
         (procs[p].op = "rateLimit" /\ procs'[p].op = "idle")
             => LET pr  == procs[p]
                    k   == calls'[pr.code][pr.route]
                    res == lastResp'.val[1]
                IN  /\ k <= pr.n => /\ res.allowed
                                    /\ res.remaining = pr.n - k
                                    /\ cache'[pr.key] = <<k>>
                    /\ k > pr.n => /\ ~res.allowed
                                   /\ res.remaining = 0
                                   /\ lastResp'.status = 429
                                   /\ cache' = cache
      ]_vars

\* an IP was blocked by its (max + 1)-th check
C27_Witness ==
    /\ lastResp.op = "rateLimit"
    /\ ~lastResp.val[1].allowed
    /\ calls[lastResp.code]["default"] = maxRequests + 1
    /\ cache[rateLimitKey(lastResp.code)] = <<maxRequests>>

\* C28: a step that changes the counter of one IP changes no other IP's
\* counter, whether an IP is allowed depends on its own checks only, and the
\* first check of an IP that has no counter (never set, reset or run out) is
\* allowed.
C28_PerIpAndResettable ==
    [][/\ \A ip \in RateIPs :
            cache'[rateLimitKey(ip)] # cache[rateLimitKey(ip)]
                => \A other \in RateIPs \ {ip} :
                       cache'[rateLimitKey(other)] = cache[rateLimitKey(other)]
       /\ \A p \in Procs :
            (procs[p].op = "rateLimit" /\ procs'[p].op = "idle")
                => LET pr == procs[p] IN
                   /\ lastResp'.val[1].allowed <=> calls'[pr.code][pr.route] <= pr.n
                   /\ calls'[pr.code][pr.route] = 1 => lastResp'.val[1].allowed
      ]_vars

\* one IP has used up its limit and been blocked; the other, found without a
\* counter, is allowed
C28_Witness ==
    /\ cache[rateLimitKey("1.1.1.1")] = <<maxRequests>>
    /\ lastResp.op = "rateLimit" /\ lastResp.code = "2.2.2.2"
    /\ lastResp.val[1].allowed
    /\ calls["2.2.2.2"]["default"] = 1
    /\ calls["1.1.1.1"]["default"] > maxRequests

----------------------------------------------------------------------------
(* The routes of the url controller behind the guard, one client *)

NextRoutes ==
    \/ \E p \in Procs : SequentialCheck(p, "1.1.1.1", "create")
    \/ \E p \in Procs : SequentialCheck(p, "1.1.1.1", "redirect")
    \/ \E p \in Procs : RlGet(p)
    \/ \E p \in Procs : RlSet(p)
    \/ CacheExpires(rateLimitKey("1.1.1.1"))

SpecRoutes == InitRateLimit /\ [][NextRoutes]_vars

\* C29: a URL-creation request is rejected with 429 only when the client has
\* made createMax URL-creation requests before it in the window, whatever
\* redirect requests it made from the same IP.
C29_PerRouteLimits ==
    [][\A p \in Procs :
         (procs[p].op = "rateLimit" /\ procs[p].route = "create"
              /\ procs'[p].op = "idle" /\ ~lastResp'.val[1].allowed)
             => calls'[procs[p].code]["create"] > createMax
      ]_vars

----------------------------------------------------------------------------
(* The overview requested by the owner, another user and an admin *)

NextOwnership ==
    \/ \E p \in Procs, u \in Users : StartOverviewAs(p, "a", u)
    \/ \E p \in Procs : WrapGet(p)
    \/ \E p \in Procs : OvFind(p)
    \/ \E p \in Procs : OvCount(p)
    \/ \E p \in Procs : OvAggregate(p)
    \/ \E p \in Procs : WrapSet(p)

SpecOwnership == InitFaults /\ [][NextOwnership]_vars

\* C33: an overview is returned only to the link's owner or an admin; any
\* other user's request ends with Unauthorized, also when the overview of the
\* code is in the cache.
C33_AnalyticsOwnership ==
    [][\A p \in Procs :
         (procs[p].op = "overview" /\ procs'[p].op = "idle")
             => IF MayRead(urls[1], procs[p].user)
                THEN lastResp'.reason = "OK"
                ELSE lastResp'.reason = "Unauthorized" /\ lastResp'.val = <<>>
      ]_vars

----------------------------------------------------------------------------
(* Bulk creation with rejected destinations and an exhausted generator *)

Generated == CreateDto("", 0)

Aliased == CreateDto("b", 0)

Rejected == [CreateDto("", 0) EXCEPT !.originalUrl = "ftp://example.com/f"]

\* batches whose rejected item comes first, last, or not at all
AtomicBatches ==
    { <<Generated>>, <<Aliased>>, <<Rejected>>, <<Generated, Generated>>,
      <<Generated, Rejected>>, <<Aliased, Rejected>>, <<Rejected, Generated>> }

NextBulkAtomic ==
    \/ \E p \in Procs, b \in AtomicBatches : StartBulk(p, b)
    \/ \E p \in Procs : BlkFindAlias(p)
    \/ \E p \in Procs, c \in Codes : BlkGenerate(p, c)
    \/ \E p \in Procs : BlkSave(p)
    \/ \E p \in Procs : BlkDeadlock(p)
    \/ \E p \in Procs : BlkRollback(p)
    \/ \E p \in Procs : BlkCommit(p)

SpecBulkAtomic == InitCreate /\ [][NextBulkAtomic]_vars

HasRejected(batch) ==
    \E k \in 1..Len(batch) : batch[k].originalUrl \in RejectedDestinations

\* C34: a batch with a rejected destination, or one whose short-code generation
\* is exhausted, fails as a whole and leaves the stored links as they were; the
\* stored links change only when a batch returns successfully.
C34_BulkAtomicOnFailure ==
    [][/\ \A p \in Procs :
            (procs[p].op = "bulk" /\ procs'[p].op = "idle")
            => /\ (HasRejected(procs[p].items) \/ lastResp'.reason = "Error")
                    => /\ lastResp'.reason \in {"Validation", "Error", "QueryFailed"}
                       /\ lastResp'.n = 0
                       /\ urls' = urls
               /\ lastResp'.reason # "OK" => urls' = urls
       /\ urls' # urls
            => \E p \in Procs : /\ procs[p].op = "bulk" /\ procs'[p].op = "idle"
                                /\ lastResp'.reason = "OK"
                                /\ ~HasRejected(procs[p].items)
      ]_vars

\* C34 witness: a batch was rejected for a destination and the store holds no
\* row that the initial state did not hold
C34_Witness ==
    /\ lastResp.op = "bulk"
    /\ lastResp.reason = "Validation"
    /\ urls = <<>>

\* C34 witness of the other hard failure: generation gave up after maxRetries
C34_WitnessExhausted ==
    /\ lastResp.op = "bulk"
    /\ lastResp.reason = "Error"

----------------------------------------------------------------------------
(* A custom alias that a soft-deleted link still holds *)

\* one creation at a time
CreateAlone(p, dto) ==
    /\ \A q \in Procs : procs[q].op # "create"
    /\ StartCreate(p, dto)

NextAliasReuse ==
    \/ \E p \in Procs : StartDelete(p, 1)
    \/ \E p \in Procs : DelRead(p)
    \/ \E p \in Procs : DelRemove(p)
    \/ \E p \in Procs : DelDel(p)
    \/ \E p \in Procs, c \in Codes : CreateAlone(p, CreateDto(c, 0))
    \/ \E p \in Procs : CrtFindAlias(p)
    \/ \E p \in Procs : CrtSave(p)

SpecAliasReuse == InitValidate /\ [][NextAliasReuse]_vars

\* C35: a creation whose custom alias is the short code of a soft-deleted link
\* either succeeds or fails with Conflict, never with an unclassified storage
\* error.
C35_TombstoneAliasClassified ==
    [][\A p \in Procs :
         ( /\ procs[p].op = "create" /\ procs'[p].op = "idle"
           /\ \E i \in Ids(urls) : /\ urls[i].shortCode = procs[p].dto.customAlias
                                    /\ urls[i].deletedAt )
         => lastResp'.reason \in {"OK", "Conflict"}
      ]_vars

----------------------------------------------------------------------------
(* Rate limiting: the requests of an IP overlap *)

NextRateRace ==
    \/ \E p \in Procs : StartCheck(p, "1.1.1.1", "create")
    \/ \E p \in Procs : RlGet(p)
    \/ \E p \in Procs : RlSet(p)

SpecRateRace == InitRateLimit /\ [][NextRateRace]_vars

\* C36: however the checks of one IP interleave within one window, at most
\* max of them are answered allowed.
C36_ConcurrentChecksBounded ==
    \A ip \in RateIPs : admitted[ip] <= createMax

----------------------------------------------------------------------------
(* The hourly synchronisation on its own, from stored counts that agree or
   disagree with the Click rows *)

Counts == 0..2

InitSync ==
    /\ \E c \in [UrlIds -> Counts] :
          urls = <<[PlainLink EXCEPT !.clickCount = c[1]],
                   [NewUrl("d2", "b", FALSE, "", 0, 0) EXCEPT !.clickCount = c[2]]>>
    /\ cache = NoCache
    /\ clickRows \in [UrlIds -> Counts]
    /\ queue = [i \in UrlIds |-> 0]
    /\ jobs = <<>>
    /\ now = 1
    /\ clicks = <<>>
    /\ isDevelopment = TRUE
    /\ admitted = NoAdmitted
    /\ users = NoUsers
    /\ calls = NoCalls
    /\ procs = [p \in Procs |-> IdleProc]
    /\ lastResp = NoResp
    /\ retVer = [c \in Codes |-> 0]
    /\ ops = 0

NextSync ==
    \/ \E p \in Procs : StartSync(p)
    \/ \E p \in Procs : SyncFind(p)
    \/ \E p \in Procs : SyncCount(p)
    \/ \E p \in Procs : SyncUpdate(p)

SpecSync == InitSync /\ [][NextSync]_vars

\* C38: when a run of syncClickCounts ends and no click was processed
\* meanwhile, every link's stored clickCount equals the number of its Click
\* rows, whatever the stored count was before the run.
C38_SyncRepairsCounts ==
    [][\A p \in Procs :
         (procs[p].op = "sync" /\ procs'[p].op = "idle")
             => \A i \in Ids(urls') : urls'[i].clickCount = clickRows'[i]
      ]_vars

----------------------------------------------------------------------------
(* CacheService.wrap and a fallback that throws *)

\* C39: a call of wrap runs its fallback at most once: a request that went
\* through wrap returns from the first run of the fallback (or from the cache),
\* and a failed request leaves the cache entry as it was.
C39_FallbackAtMostOnce ==
    [][\A p \in Procs :
         (procs[p].op = "overview" /\ procs'[p].op = "idle")
             => /\ procs[p].k <= 1
                /\ lastResp'.reason # "OK"
                     => cache'[procs[p].key] = cache[procs[p].key]
      ]_vars

----------------------------------------------------------------------------
(* The refresh tokens of a registered user *)

InitAuth ==
    /\ urls = <<PlainLink>>
    /\ cache = NoCache
    /\ clickRows = [i \in UrlIds |-> 0]
    /\ queue = [i \in UrlIds |-> 0]
    /\ jobs = <<>>
    /\ now = 1
    /\ clicks = <<>>
    /\ isDevelopment = TRUE
    /\ admitted = NoAdmitted
    /\ users = RegisteredUser
    /\ calls = NoCalls
    /\ procs = [p \in Procs |-> IdleProc]
    /\ lastResp = NoResp
    /\ retVer = [c \in Codes |-> 0]
    /\ ops = 0

NextAuth ==
    \/ \E p \in Procs, t \in Tokens : StartRefresh(p, t)
    \/ \E p \in Procs : RfFind(p)
    \/ \E p \in Procs : RfCompare(p)
    \/ \E p \in Procs : RfSave(p)
    \/ Logout
    \/ \E p \in Procs : StartLogin(p)
    \/ \E p \in Procs : LgFind(p)
    \/ \E p \in Procs : LgTouch(p)
    \/ \E p \in Procs : LgSave(p)

SpecAuth == InitAuth /\ [][NextAuth]_vars

\* refresh requests and logouts, no login
NextLogout ==
    \/ \E p \in Procs, t \in Tokens : StartRefresh(p, t)
    \/ \E p \in Procs : RfFind(p)
    \/ \E p \in Procs : RfCompare(p)
    \/ \E p \in Procs : RfSave(p)
    \/ Logout

SpecLogout == InitAuth /\ [][NextLogout]_vars

\* C31: a refresh request that starts after a logout has returned and presents
\* a refresh token issued before that logout fails with Unauthorized, as long
\* as no login has completed since.
C31_LogoutRevokes ==
    [][\A p \in Procs :
         (procs[p].op = "refresh" /\ procs'[p].op = "idle" /\ procs[p].late)
             => lastResp'.reason = "Unauthorized"
      ]_vars

\* C37: a successful refresh stores the hash of the token it returns, and the
\* token it was given had not been used for a successful refresh before.
C37_RefreshTokenSingleUse ==
    [][\A p \in Procs :
         (procs[p].op = "refresh" /\ procs'[p].op = "idle"
              /\ lastResp'.reason = "OK")
             => /\ users'.refreshToken = HashToken(lastResp'.val[1])
                /\ procs[p].tok \notin users.used
      ]_vars

====
